---- MODULE Spec2Model ----
(***************************************************************************)
(* binsdpy: similarity and distance coefficients of binary feature         *)
(* vectors.  Every coefficient reduces two vectors (and an optional mask)  *)
(* to the tally (a, b, c, d) with operational_taxonomic_units and then     *)
(* evaluates a closed formula over the four counts.                        *)
(*                                                                         *)
(* Numbers.  The tally is made of integers; the formulas use true          *)
(* division, math.sqrt and math.pow.  A returned number is modelled by its *)
(* exact real value, written  (u + v * sqrt(q)) ^ (1 / rt)  with u, v      *)
(* rationals in lowest terms, q a square-free natural and rt in {1, 2}.    *)
(* With z = u + v * sqrt(q), the further forms are rt = 3: pi * z,         *)
(* rt = 4: cos(pi * z), rt = 5: ln(z) and rt = 6: log10(z).                *)
(* A call ends in an outcome: a value or the name of the raised error.     *)
(***************************************************************************)
EXTENDS Integers, Sequences, FiniteSets, TLC

\* ------------------------------------------------------------------ bounds
MaxLen == 3
MaxMaskLen == 2
MaxBadLen == 1

\* ------------------------------------------------------- exact arithmetic
Abs(i) == IF i < 0 THEN 0 - i ELSE i

Sgn(i) == IF i < 0 THEN 0 - 1 ELSE IF i = 0 THEN 0 ELSE 1

Max(i, j) == IF i >= j THEN i ELSE j

Min(i, j) == IF i <= j THEN i ELSE j

RECURSIVE GCD(_, _)
GCD(i, j) == IF j = 0 THEN i ELSE GCD(j, i % j)

\* a rational in lowest terms with a positive denominator
Rat(n, d) ==
    LET g == GCD(Abs(n), Abs(d))
        s == IF d < 0 THEN 0 - 1 ELSE 1
    IN  << (s * n) \div g, (s * d) \div g >>

RInt(i) == << i, 1 >>

RAdd(r, s) == Rat(r[1] * s[2] + s[1] * r[2], r[2] * s[2])

RSub(r, s) == Rat(r[1] * s[2] - s[1] * r[2], r[2] * s[2])

RMul(r, s) == Rat(r[1] * s[1], r[2] * s[2])

RInv(r) == Rat(r[2], r[1])

RLeq(r, s) == r[1] * s[2] <= s[1] * r[2]

\* the largest s with s * s dividing q (q >= 1)
SquarePart(q) ==
    CHOOSE s \in 1..q :
        /\ q % (s * s) = 0
        /\ \A t \in (s + 1)..q : q % (t * t) # 0

\* u + v * sqrt(q) in normal form: q square-free, and q = 1 with v = 0 when
\* the number is rational
Surd(u, v, q) ==
    IF v[1] = 0 \/ q = 0
    THEN [u |-> u, v |-> RInt(0), q |-> 1]
    ELSE LET s == SquarePart(q)
             t == q \div (s * s)
         IN  IF t = 1
             THEN [u |-> RAdd(u, RMul(v, RInt(s))), v |-> RInt(0), q |-> 1]
             ELSE [u |-> u, v |-> RMul(v, RInt(s)), q |-> t]

\* sign of u + v * sqrt(q)
SurdSign(z) ==
    LET su == Sgn(z.u[1])
        sv == Sgn(z.v[1])
        uu == RMul(z.u, z.u)
        vv == RMul(RMul(z.v, z.v), RInt(z.q))
    IN  IF sv = 0 THEN su
        ELSE IF su = 0 THEN sv
        ELSE IF su = sv THEN su
        ELSE IF uu = vv THEN 0
        ELSE IF RLeq(vv, uu) THEN su ELSE sv

\* the field the two numbers live in: Q(sqrt(q)); 0 when they share none
CommonQ(z, w) ==
    IF z.q = 1 THEN w.q
    ELSE IF w.q = 1 \/ w.q = z.q THEN z.q
    ELSE 0

SurdAdd(z, w) == Surd(RAdd(z.u, w.u), RAdd(z.v, w.v), CommonQ(z, w))

SurdNeg(z) == Surd(RSub(RInt(0), z.u), RSub(RInt(0), z.v), z.q)

SurdMul(z, w) ==
    LET q == CommonQ(z, w)
    IN  Surd(RAdd(RMul(z.u, w.u), RMul(RMul(z.v, w.v), RInt(q))),
             RAdd(RMul(z.u, w.v), RMul(z.v, w.u)), q)

\* 1 / (u + v sqrt(q)) = (u - v sqrt(q)) / (u^2 - q v^2), for a non-zero number
SurdInv(z) ==
    LET nrm == RSub(RMul(z.u, z.u), RMul(RMul(z.v, z.v), RInt(z.q)))
        inv == RInv(nrm)
    IN  Surd(RMul(z.u, inv), RSub(RInt(0), RMul(z.v, inv)), z.q)

\* ---------------------------------------------------------------- numbers
Num(z) == [rt |-> 1, z |-> z]

Int2Num(i) == Num(Surd(RInt(i), RInt(0), 1))

Rat2Num(r) == Num(Surd(r, RInt(0), 1))

IsRational(n) == n.rt = 1 /\ n.z.q = 1

NumSign(n) == SurdSign(n.z)

\* the number squared, as a number with rt = 1
NumSquare(n) == IF n.rt = 2 THEN Num(n.z) ELSE Num(SurdMul(n.z, n.z))

\* equality of the real values (a number under a root is compared by squares)
NumEq(m, n) == NumSign(m) = NumSign(n) /\ NumSquare(m) = NumSquare(n)

\* ---------------------------------------------------------------- outcomes
Ok(n) == [kind |-> "value", num |-> n]

Raise(e) == [kind |-> e, num |-> Int2Num(0)]

IsOk(o) == o.kind = "value"

\* a call that ends without a return statement yields None, not a number
ReturnsNone == [kind |-> "None", num |-> Int2Num(0)]

ZeroDivisionError == Raise("ZeroDivisionError")

ValueError == Raise("ValueError")

TypeError == Raise("TypeError")

LengthMismatch == Raise("LengthMismatch")

OAdd(o, p) ==
    IF ~IsOk(o) THEN o ELSE IF ~IsOk(p) THEN p
    ELSE IF o.num.rt = 1 /\ p.num.rt = 1 /\ CommonQ(o.num.z, p.num.z) # 0
         THEN Ok(Num(SurdAdd(o.num.z, p.num.z)))
         ELSE Raise("Unrepresented")

ONeg(o) ==
    IF ~IsOk(o) THEN o
    ELSE IF o.num.rt = 1 THEN Ok(Num(SurdNeg(o.num.z))) ELSE Raise("Unrepresented")

OSub(o, p) == OAdd(o, IF IsOk(o) THEN ONeg(p) ELSE p)

\* k * sqrt(z) = sqrt(k * k * z) for a rational k >= 0
OMul(o, p) ==
    IF ~IsOk(o) THEN o ELSE IF ~IsOk(p) THEN p
    ELSE IF o.num.rt = 1 /\ p.num.rt = 1 /\ CommonQ(o.num.z, p.num.z) # 0
         THEN Ok(Num(SurdMul(o.num.z, p.num.z)))
    ELSE IF IsRational(o.num) /\ NumSign(o.num) >= 0 /\ p.num.rt = 2
         THEN Ok([rt |-> 2, z |-> SurdMul(SurdMul(o.num.z, o.num.z), p.num.z)])
    ELSE IF o.num.rt = 3 /\ p.num.rt = 1 /\ CommonQ(o.num.z, p.num.z) # 0
         THEN Ok([rt |-> 3, z |-> SurdMul(o.num.z, p.num.z)])
         ELSE Raise("Unrepresented")

ODiv(o, p) ==
    IF ~IsOk(o) THEN o ELSE IF ~IsOk(p) THEN p
    ELSE IF NumSign(p.num) = 0 THEN ZeroDivisionError
    ELSE IF o.num.rt \in {1, 3} /\ p.num.rt = 1 /\ CommonQ(o.num.z, p.num.z) # 0
         THEN Ok([rt |-> o.num.rt, z |-> SurdMul(o.num.z, SurdInv(p.num.z))])
         ELSE Raise("Unrepresented")

\* math.sqrt: ValueError (math domain error) on a negative argument
OSqrt(o) ==
    IF ~IsOk(o) THEN o
    ELSE IF o.num.rt # 1 THEN Raise("Unrepresented")
    ELSE IF NumSign(o.num) < 0 THEN ValueError
    ELSE IF o.num.z.q = 1
         THEN LET r == o.num.z.u
              IN  Ok(Num(Surd(RInt(0), Rat(1, r[2]), r[1] * r[2])))
         ELSE Ok([rt |-> 2, z |-> o.num.z])

\* math.pi
OPi == Ok([rt |-> 3, z |-> Surd(RInt(1), RInt(0), 1)])

\* math.cos of pi * z; the rational values of the cosine are kept as such
OCos(o) ==
    IF ~IsOk(o) THEN o
    ELSE IF o.num.rt # 3 THEN Raise("Unrepresented")
    ELSE LET z == o.num.z
         IN  IF z.q # 1 THEN Ok([rt |-> 4, z |-> z])
             ELSE IF z.u = RInt(0) THEN Ok(Int2Num(1))
             ELSE IF z.u = RInt(1) THEN Ok(Int2Num(0 - 1))
             ELSE IF z.u = Rat(1, 2) THEN Ok(Int2Num(0))
             ELSE IF z.u = Rat(1, 3) THEN Ok(Rat2Num(Rat(1, 2)))
             ELSE IF z.u = Rat(2, 3) THEN Ok(Rat2Num(Rat(0 - 1, 2)))
             ELSE Ok([rt |-> 4, z |-> z])

\* the logarithm of z; ln(1) is the number 0
MkLog(k, z) == IF z.q = 1 /\ z.u = RInt(1) THEN Int2Num(0) ELSE [rt |-> k, z |-> z]

\* the argument of a logarithm, 1 for the number 0
LogArg(n) == IF n.rt = 1 THEN Surd(RInt(1), RInt(0), 1) ELSE n.z

\* math.log (k = 5) and math.log10 (k = 6): ValueError unless the argument
\* is positive
OLogK(k, o) ==
    IF ~IsOk(o) THEN o
    ELSE IF o.num.rt # 1 THEN Raise("Unrepresented")
    ELSE IF NumSign(o.num) <= 0 THEN ValueError
    ELSE Ok(MkLog(k, o.num.z))

\* o - p for two logarithms of base k: log(z) - log(w) = log(z / w)
OSubLogK(k, o, p) ==
    IF ~IsOk(o) THEN o ELSE IF ~IsOk(p) THEN p
    ELSE IF \A n \in {o.num, p.num} : n.rt = k \/ n = Int2Num(0)
         THEN Ok(MkLog(k, SurdMul(LogArg(o.num), SurdInv(LogArg(p.num)))))
         ELSE Raise("Unrepresented")

OLog(o) == OLogK(5, o)

OLog10(o) == OLogK(6, o)

OSubLog(o, p) == OSubLogK(5, o, p)

OSubLog10(o, p) == OSubLogK(6, o, p)

\* math.pow(o, 2)
OPow2(o) == OMul(o, o)

OInt(i) == Ok(Int2Num(i))

\* ----------------------------------------------------------------- vectors
\* A binary feature vector is a numpy boolean array (rep "ndarray", its
\* flags in data) or a bitset over a universe of `size` members (rep
\* "bitset", the indices of its members in members).  NoMask is mask=None.
Bit == {0, 1}

BitSeqs(n) == [1..n -> Bit]

Ndarray(s) == [rep |-> "ndarray", size |-> Len(s), data |-> s, members |-> {}]

Bitset(s) ==
    [rep |-> "bitset", size |-> Len(s), data |-> << >>,
     members |-> {i \in 1..Len(s) : s[i] = 1}]

NoMask == [rep |-> "None", size |-> 0, data |-> << >>, members |-> {}]

Reps == {"ndarray", "bitset"}

\* an argument of a type with neither index access nor set operations
Opaque == [rep |-> "object", size |-> 0, data |-> << >>, members |-> {}]

Supported(v) == v.rep \in Reps

Vector(r, s) == IF r = "ndarray" THEN Ndarray(s) ELSE Bitset(s)

\* the flags of a vector, whatever its representation
Content(v) ==
    IF v.rep = "ndarray" THEN v.data
    ELSE [i \in 1..v.size |-> IF i \in v.members THEN 1 ELSE 0]

\* x[mask]: the masked-in positions of s, in their original order
RECURSIVE project(_, _)
project(s, m) ==
    IF Len(s) = 0 \/ Len(m) = 0 THEN << >>
    ELSE IF Head(m) = 1 THEN << Head(s) >> \o project(Tail(s), Tail(m))
    ELSE project(Tail(s), Tail(m))

\* ------------------------------------------------------ counting reduction
Tally(a, b, c, d) == [kind |-> "tally", abcd |-> << a, b, c, d >>]

NoTally(e) == [kind |-> e, abcd |-> << 0, 0, 0, 0 >>]

\* dense arrays: one scan classifying each included position 1..i
RECURSIVE otu_scan(_, _, _, _)
otu_scan(xs, ys, ms, i) ==
    IF i = 0 THEN << 0, 0, 0, 0 >>
    ELSE LET t == otu_scan(xs, ys, ms, i - 1)
         IN  IF ms[i] = 0 THEN t
             ELSE IF xs[i] = 1 /\ ys[i] = 1 THEN << t[1] + 1, t[2], t[3], t[4] >>
             ELSE IF xs[i] = 1 /\ ys[i] = 0 THEN << t[1], t[2] + 1, t[3], t[4] >>
             ELSE IF xs[i] = 0 /\ ys[i] = 1 THEN << t[1], t[2], t[3] + 1, t[4] >>
             ELSE << t[1], t[2], t[3], t[4] + 1 >>

otu_ndarray(x, y, mask) ==
    LET ms == IF mask = NoMask THEN [i \in 1..x.size |-> 1] ELSE mask.data
        t  == otu_scan(x.data, y.data, ms, x.size)
    IN  Tally(t[1], t[2], t[3], t[4])

\* a slip: the complement taken in the whole universe, not in the mask
otu_bitset_full_complement(x, y, mask) ==
    LET universe == IF mask = NoMask THEN 1..x.size ELSE mask.members
    IN  Tally(Cardinality((x.members \cap y.members) \cap universe),
              Cardinality((x.members \ y.members) \cap universe),
              Cardinality((y.members \ x.members) \cap universe),
              Cardinality((1..x.size) \ (x.members \cup y.members)))

\* bitsets: population counts of intersection, differences and complement,
\* within the universe or within the mask
otu_bitset(x, y, mask) ==
    LET universe == IF mask = NoMask THEN 1..x.size ELSE mask.members
    IN  Tally(Cardinality((x.members \cap y.members) \cap universe),
              Cardinality((x.members \ y.members) \cap universe),
              Cardinality((y.members \ x.members) \cap universe),
              Cardinality(universe \ (x.members \cup y.members)))

\* a slip: a type that is not a dense array taken for a bitset
operational_taxonomic_units_guessing(x, y, mask) ==
    IF x.size # y.size \/ (mask # NoMask /\ mask.size # x.size)
    THEN NoTally("LengthMismatch")
    ELSE IF x.rep = "ndarray" THEN otu_ndarray(x, y, mask)
    ELSE otu_bitset(x, y, mask)

\* the representation is looked at first: an unsupported one fails before
\* any counting
operational_taxonomic_units(x, y, mask) ==
    IF ~Supported(x) \/ ~Supported(y) \/ (mask # NoMask /\ ~Supported(mask))
    THEN NoTally("UnsupportedRepresentation")
    ELSE IF x.size # y.size \/ (mask # NoMask /\ mask.size # x.size)
    THEN NoTally("LengthMismatch")
    ELSE IF x.rep = "ndarray" THEN otu_ndarray(x, y, mask)
    ELSE otu_bitset(x, y, mask)

\* a, b, c, d = operational_taxonomic_units(...), then the formula F(a,b,c,d);
\* an error of the reduction propagates to the caller
A(t) == t.abcd[1]

B(t) == t.abcd[2]

C(t) == t.abcd[3]

D(t) == t.abcd[4]

N(t) == A(t) + B(t) + C(t) + D(t)

\* ------------------------------------------------------------- distance.py
\* The functions of distance.py and similarity.py take (x, y) only.
dist_hamming(x, y) ==
    LET t == operational_taxonomic_units(x, y, NoMask)
    IN  IF t.kind # "tally" THEN Raise(t.kind) ELSE OInt(B(t) + C(t))

dist_euclid(x, y) ==
    LET t == operational_taxonomic_units(x, y, NoMask)
    IN  IF t.kind # "tally" THEN Raise(t.kind) ELSE OSqrt(OInt(B(t) + C(t)))

\* a slip: the square without the root
dist_squared_euclid_no_root(x, y) ==
    LET t == operational_taxonomic_units(x, y, NoMask)
    IN  IF t.kind # "tally" THEN Raise(t.kind)
        ELSE OPow2(OInt(B(t) + C(t)))

dist_squared_euclid(x, y) ==
    LET t == operational_taxonomic_units(x, y, NoMask)
    IN  IF t.kind # "tally" THEN Raise(t.kind)
        ELSE OSqrt(OPow2(OInt(B(t) + C(t))))

dist_canberra(x, y) ==
    LET t == operational_taxonomic_units(x, y, NoMask)
    IN  IF t.kind # "tally" THEN Raise(t.kind) ELSE OInt(B(t) + C(t))

dist_manhattan(x, y) ==
    LET t == operational_taxonomic_units(x, y, NoMask)
    IN  IF t.kind # "tally" THEN Raise(t.kind) ELSE OInt(B(t) + C(t))

dist_mean_manhattan(x, y) ==
    LET t == operational_taxonomic_units(x, y, NoMask)
    IN  IF t.kind # "tally" THEN Raise(t.kind)
        ELSE ODiv(OInt(B(t) + C(t)), OInt(A(t) + B(t) + C(t) + D(t)))

dist_cityblock(x, y) ==
    LET t == operational_taxonomic_units(x, y, NoMask)
    IN  IF t.kind # "tally" THEN Raise(t.kind) ELSE OInt(B(t) + C(t))

dist_minkowski(x, y) ==
    LET t == operational_taxonomic_units(x, y, NoMask)
    IN  IF t.kind # "tally" THEN Raise(t.kind) ELSE OInt(B(t) + C(t))

dist_vari(x, y) ==
    LET t == operational_taxonomic_units(x, y, NoMask)
    IN  IF t.kind # "tally" THEN Raise(t.kind)
        ELSE ODiv(OInt(B(t) + C(t)), OInt(4 * (A(t) + B(t) + C(t) + D(t))))

dist_size_difference(x, y) ==
    LET t == operational_taxonomic_units(x, y, NoMask)
    IN  IF t.kind # "tally" THEN Raise(t.kind)
        ELSE ODiv(OPow2(OInt(B(t) + C(t))),
                  OPow2(OInt(A(t) + B(t) + C(t) + D(t))))

dist_shape_difference(x, y) ==
    LET t == operational_taxonomic_units(x, y, NoMask)
        n == A(t) + B(t) + C(t) + D(t)
    IN  IF t.kind # "tally" THEN Raise(t.kind)
        ELSE ODiv(OSub(OInt(n * (B(t) + C(t))), OPow2(OInt(B(t) + C(t)))),
                  OPow2(OInt(n)))

dist_pattern_difference(x, y) ==
    LET t == operational_taxonomic_units(x, y, NoMask)
    IN  IF t.kind # "tally" THEN Raise(t.kind)
        ELSE ODiv(OInt(4 * B(t) * C(t)),
                  OPow2(OInt(A(t) + B(t) + C(t) + D(t))))

\* a slip: a counted once in the denominator
dist_lance_williams_single_a(x, y) ==
    LET t == operational_taxonomic_units(x, y, NoMask)
    IN  IF t.kind # "tally" THEN Raise(t.kind)
        ELSE ODiv(OInt(B(t) + C(t)), OInt(A(t) + B(t) + C(t)))

dist_lance_williams(x, y) ==
    LET t == operational_taxonomic_units(x, y, NoMask)
    IN  IF t.kind # "tally" THEN Raise(t.kind)
        ELSE ODiv(OInt(B(t) + C(t)), OInt(2 * A(t) + B(t) + C(t)))

dist_bray_curtis(x, y) ==
    LET t == operational_taxonomic_units(x, y, NoMask)
    IN  IF t.kind # "tally" THEN Raise(t.kind)
        ELSE ODiv(OInt(B(t) + C(t)), OInt(2 * A(t) + B(t) + C(t)))

dist_hellinger(x, y) ==
    LET t == operational_taxonomic_units(x, y, NoMask)
    IN  IF t.kind # "tally" THEN Raise(t.kind)
        ELSE OMul(OInt(2),
                  OSqrt(OSub(OInt(1),
                             ODiv(OInt(A(t)),
                                  OSqrt(OInt((A(t) + B(t)) * (A(t) + C(t))))))))

dist_chord(x, y) ==
    LET t == operational_taxonomic_units(x, y, NoMask)
    IN  IF t.kind # "tally" THEN Raise(t.kind)
        ELSE OSqrt(OMul(OInt(2),
                        OSub(OInt(1),
                             ODiv(OInt(A(t)),
                                  OSqrt(OInt((A(t) + B(t)) * (A(t) + C(t))))))))

DistanceFns ==
    {"hamming", "euclid", "squared_euclid", "canberra", "manhattan",
     "mean_manhattan", "cityblock", "minkowski", "vari", "size_difference",
     "shape_difference", "pattern_difference", "lance_williams",
     "bray_curtis", "hellinger", "chord"}

distance(f, x, y) ==
    CASE f = "hamming" -> dist_hamming(x, y)
      [] f = "euclid" -> dist_euclid(x, y)
      [] f = "squared_euclid" -> dist_squared_euclid(x, y)
      [] f = "canberra" -> dist_canberra(x, y)
      [] f = "manhattan" -> dist_manhattan(x, y)
      [] f = "mean_manhattan" -> dist_mean_manhattan(x, y)
      [] f = "cityblock" -> dist_cityblock(x, y)
      [] f = "minkowski" -> dist_minkowski(x, y)
      [] f = "vari" -> dist_vari(x, y)
      [] f = "size_difference" -> dist_size_difference(x, y)
      [] f = "shape_difference" -> dist_shape_difference(x, y)
      [] f = "pattern_difference" -> dist_pattern_difference(x, y)
      [] f = "lance_williams" -> dist_lance_williams(x, y)
      [] f = "bray_curtis" -> dist_bray_curtis(x, y)
      [] f = "hellinger" -> dist_hellinger(x, y)
      [] f = "chord" -> dist_chord(x, y)

\* ----------------------------------------------------------- similarity.py
\* a slip: d counted as a match
sim_jaccard_counts_d(x, y) ==
    LET t == operational_taxonomic_units(x, y, NoMask)
        a == A(t)
        b == B(t)
        c == C(t)
        d == D(t)
    IN  IF t.kind # "tally" THEN Raise(t.kind)
        ELSE ODiv(OInt(a + d), OInt(a + b + c))

sim_jaccard(x, y) ==
    LET t == operational_taxonomic_units(x, y, NoMask)
        a == A(t)
        b == B(t)
        c == C(t)
        d == D(t)
    IN  IF t.kind # "tally" THEN Raise(t.kind)
        ELSE ODiv(OInt(a), OInt(a + b + c))

\* a slip: c left out of the denominator
sim_dice_no_c(x, y) ==
    LET t == operational_taxonomic_units(x, y, NoMask)
        a == A(t)
        b == B(t)
    IN  IF t.kind # "tally" THEN Raise(t.kind)
        ELSE ODiv(OInt(2 * a), OInt(2 * a + b))

sim_dice(x, y) ==
    LET t == operational_taxonomic_units(x, y, NoMask)
        a == A(t)
        b == B(t)
        c == C(t)
        d == D(t)
    IN  IF t.kind # "tally" THEN Raise(t.kind)
        ELSE ODiv(OInt(2 * a), OInt(2 * a + b + c))

sim_czekanowski(x, y) ==
    LET t == operational_taxonomic_units(x, y, NoMask)
        a == A(t)
        b == B(t)
        c == C(t)
        d == D(t)
    IN  IF t.kind # "tally" THEN Raise(t.kind)
        ELSE ODiv(OInt(2 * a), OInt(2 * a + b + c))

sim_nei_li(x, y) ==
    LET t == operational_taxonomic_units(x, y, NoMask)
        a == A(t)
        b == B(t)
        c == C(t)
        d == D(t)
    IN  IF t.kind # "tally" THEN Raise(t.kind)
        ELSE ODiv(OInt(2 * a), OInt(2 * a + b + c))

\* a slip: d left out of the numerator
sim_smc_no_d(x, y) ==
    LET t == operational_taxonomic_units(x, y, NoMask)
        a == A(t)
        b == B(t)
        c == C(t)
        d == D(t)
    IN  IF t.kind # "tally" THEN Raise(t.kind)
        ELSE ODiv(OInt(a), OInt(a + b + c + d))

sim_smc(x, y) ==
    LET t == operational_taxonomic_units(x, y, NoMask)
        a == A(t)
        b == B(t)
        c == C(t)
        d == D(t)
    IN  IF t.kind # "tally" THEN Raise(t.kind)
        ELSE ODiv(OInt(a + d), OInt(a + b + c + d))

\* a slip: a zero denominator answered with 0
sim_cosine_guarded(x, y) ==
    LET t == operational_taxonomic_units(x, y, NoMask)
        a == A(t)
        b == B(t)
        c == C(t)
    IN  IF t.kind # "tally" THEN Raise(t.kind)
        ELSE IF (a + b) * (a + c) = 0 THEN OInt(0)
        ELSE ODiv(OInt(a), OSqrt(OInt((a + b) * (a + c))))

sim_cosine(x, y) ==
    LET t == operational_taxonomic_units(x, y, NoMask)
        a == A(t)
        b == B(t)
        c == C(t)
        d == D(t)
    IN  IF t.kind # "tally" THEN Raise(t.kind)
        ELSE ODiv(OInt(a), OSqrt(OInt((a + b) * (a + c))))

sim_pearson1(x, y) ==
    LET t == operational_taxonomic_units(x, y, NoMask)
        a == A(t)
        b == B(t)
        c == C(t)
        d == D(t)
        n == a + b + c + d
    IN  IF t.kind # "tally" THEN Raise(t.kind)
        ELSE ODiv(OMul(OInt(n), OPow2(OInt(a * d - b * c))),
                  OInt((a + b) * (a + c) * (b + d) * (c + d)))

sim_pearson2(x, y) ==
    LET t == operational_taxonomic_units(x, y, NoMask)
        a == A(t)
        b == B(t)
        c == C(t)
        d == D(t)
        n == a + b + c + d
        x_2 == sim_pearson1(x, y)
    IN  IF t.kind # "tally" THEN Raise(t.kind)
        ELSE OSqrt(ODiv(x_2, OAdd(OInt(n), x_2)))

sim_pearson_heron1(x, y) ==
    LET t == operational_taxonomic_units(x, y, NoMask)
        a == A(t)
        b == B(t)
        c == C(t)
        d == D(t)
    IN  IF t.kind # "tally" THEN Raise(t.kind)
        ELSE ODiv(OInt(a * d - b * c),
                  OSqrt(OInt((a + b) * (a + c) * (b + d) * (c + d))))

\* a slip: the square of p under the root, as in pearson2
sim_pearson3_of_square(x, y) ==
    LET t == operational_taxonomic_units(x, y, NoMask)
        a == A(t)
        b == B(t)
        c == C(t)
        d == D(t)
        n == a + b + c + d
        p == sim_pearson_heron1(x, y)
    IN  IF t.kind # "tally" THEN Raise(t.kind)
        ELSE OSqrt(ODiv(OMul(p, p), OAdd(OInt(n), OMul(p, p))))

sim_pearson3(x, y) ==
    LET t == operational_taxonomic_units(x, y, NoMask)
        a == A(t)
        b == B(t)
        c == C(t)
        d == D(t)
        n == a + b + c + d
        p == sim_pearson_heron1(x, y)
    IN  IF t.kind # "tally" THEN Raise(t.kind)
        ELSE OSqrt(ODiv(p, OAdd(OInt(n), p)))

sim_kulczynski1(x, y) ==
    LET t == operational_taxonomic_units(x, y, NoMask)
        a == A(t)
        b == B(t)
        c == C(t)
        d == D(t)
    IN  IF t.kind # "tally" THEN Raise(t.kind)
        ELSE ODiv(OInt(a), OInt(b + c))

sim_tanimoto(x, y) ==
    LET t == operational_taxonomic_units(x, y, NoMask)
        a == A(t)
        b == B(t)
        c == C(t)
        d == D(t)
    IN  IF t.kind # "tally" THEN Raise(t.kind)
        ELSE ODiv(OInt(a), OInt(a + b + c))

sim_faith(x, y) ==
    LET t == operational_taxonomic_units(x, y, NoMask)
        a == A(t)
        b == B(t)
        c == C(t)
        d == D(t)
    IN  IF t.kind # "tally" THEN Raise(t.kind)
        ELSE ODiv(OAdd(OInt(a), OMul(Ok(Rat2Num(Rat(1, 2))), OInt(d))), OInt(a + b + c + d))

\* a slip: the first logarithm guarded as log(a + 1)
sim_gilbert_wells_log_a_plus_1(x, y) ==
    LET t == operational_taxonomic_units(x, y, NoMask)
        a == A(t)
        b == B(t)
        c == C(t)
        d == D(t)
        n == a + b + c + d
    IN  IF t.kind # "tally" THEN Raise(t.kind)
        ELSE OSubLog(OSubLog(OSubLog(OLog(OInt(a + 1)), OLog(OInt(n))),
                       OLog(ODiv(OInt(a + b), OInt(n)))),
                  OLog(ODiv(OInt(a + c), OInt(n))))

\* math.log(a) is taken first: a = 0 is a ValueError
sim_gilbert_wells(x, y) ==
    LET t == operational_taxonomic_units(x, y, NoMask)
        a == A(t)
        b == B(t)
        c == C(t)
        d == D(t)
        n == a + b + c + d
    IN  IF t.kind # "tally" THEN Raise(t.kind)
        ELSE OSubLog(OSubLog(OSubLog(OLog(OInt(a)), OLog(OInt(n))),
                       OLog(ODiv(OInt(a + b), OInt(n)))),
                  OLog(ODiv(OInt(a + c), OInt(n))))

sim_pearson_heron2(x, y) ==
    LET t == operational_taxonomic_units(x, y, NoMask)
        a == A(t)
        b == B(t)
        c == C(t)
        d == D(t)
    IN  IF t.kind # "tally" THEN Raise(t.kind)
        ELSE OCos(ODiv(OMul(OPi, OSqrt(OInt(b * c))),
                       OAdd(OSqrt(OInt(a * d)), OSqrt(OInt(b * c)))))

sim_yuleq(x, y) ==
    LET t == operational_taxonomic_units(x, y, NoMask)
        a == A(t)
        b == B(t)
        c == C(t)
        d == D(t)
    IN  IF t.kind # "tally" THEN Raise(t.kind)
        ELSE ODiv(OInt(a * d - b * c), OInt(a * d + b * c))

sim_yulew(x, y) ==
    LET t == operational_taxonomic_units(x, y, NoMask)
        a == A(t)
        b == B(t)
        c == C(t)
        d == D(t)
    IN  IF t.kind # "tally" THEN Raise(t.kind)
        ELSE ODiv(OSub(OSqrt(OInt(a * d)), OSqrt(OInt(b * c))),
                  OAdd(OSqrt(OInt(a * d)), OSqrt(OInt(b * c))))

sim_baroni_urbani_buser1(x, y) ==
    LET t == operational_taxonomic_units(x, y, NoMask)
        a == A(t)
        b == B(t)
        c == C(t)
        d == D(t)
    IN  IF t.kind # "tally" THEN Raise(t.kind)
        ELSE ODiv(OAdd(OSqrt(OInt(a * d)), OInt(a)),
                  OAdd(OSqrt(OInt(a * d)), OInt(a + b + c)))

sim_baroni_urbani_buser2(x, y) ==
    LET t == operational_taxonomic_units(x, y, NoMask)
        a == A(t)
        b == B(t)
        c == C(t)
        d == D(t)
    IN  IF t.kind # "tally" THEN Raise(t.kind)
        ELSE ODiv(OAdd(OSqrt(OInt(a * d)), OInt(a - (b + c))),
                  OAdd(OSqrt(OInt(a * d)), OInt(a + b + c)))

\* a slip: the two terms under the root in the other order
sim_cole_radicand_reversed(x, y) ==
    LET t == operational_taxonomic_units(x, y, NoMask)
        a == A(t)
        b == B(t)
        c == C(t)
        d == D(t)
    IN  IF t.kind # "tally" THEN Raise(t.kind)
        ELSE ODiv(OMul(OSqrt(OInt(2)), OInt(a * d - b * c)),
                  OSqrt(OSub(OInt((a + b) * (a + c) * (b + d) * (c + d)), OPow2(OInt(a * d - b * c)))))

\* the root of the denominator is taken of a number that is never positive
sim_cole(x, y) ==
    LET t == operational_taxonomic_units(x, y, NoMask)
        a == A(t)
        b == B(t)
        c == C(t)
        d == D(t)
    IN  IF t.kind # "tally" THEN Raise(t.kind)
        ELSE ODiv(OMul(OSqrt(OInt(2)), OInt(a * d - b * c)),
                  OSqrt(OSub(OPow2(OInt(a * d - b * c)), OInt((a + b) * (a + c) * (b + d) * (c + d)))))

\* the fourth term repeats d / (b + d)
sim_sokal_sneath4(x, y) ==
    LET t == operational_taxonomic_units(x, y, NoMask)
        a == A(t)
        b == B(t)
        c == C(t)
        d == D(t)
    IN  IF t.kind # "tally" THEN Raise(t.kind)
        ELSE ODiv(OAdd(OAdd(OAdd(ODiv(OInt(a), OInt(a + b)), ODiv(OInt(a), OInt(a + c))),
                            ODiv(OInt(d), OInt(b + d))),
                       ODiv(OInt(d), OInt(b + d))),
                  OInt(4))

sim_goodman_kruskal(x, y) ==
    LET t == operational_taxonomic_units(x, y, NoMask)
        a == A(t)
        b == B(t)
        c == C(t)
        d == D(t)
        n == a + b + c + d
        sigma == Max(a, b) + Max(c, d) + Max(a, c) + Max(b, d)
        sigma_ == Max(a + c, b + d) + Max(a + b, c + d)
    IN  IF t.kind # "tally" THEN Raise(t.kind)
        ELSE ODiv(OInt(sigma - sigma_), OInt(2 * n - sigma_))

sim_anderberg(x, y) ==
    LET t == operational_taxonomic_units(x, y, NoMask)
        a == A(t)
        b == B(t)
        c == C(t)
        d == D(t)
        n == a + b + c + d
        sigma == Max(a, b) + Max(c, d) + Max(a, c) + Max(b, d)
        sigma_ == Max(a + c, b + d) + Max(a + b, c + d)
    IN  IF t.kind # "tally" THEN Raise(t.kind)
        ELSE ODiv(OInt(sigma - sigma_), OInt(2 * n))

sim_inner_product(x, y) ==
    LET t == operational_taxonomic_units(x, y, NoMask)
        a == A(t)
        b == B(t)
        c == C(t)
        d == D(t)
    IN  IF t.kind # "tally" THEN Raise(t.kind)
        ELSE OInt(a + d)

sim_kulczynski2(x, y) ==
    LET t == operational_taxonomic_units(x, y, NoMask)
        a == A(t)
        b == B(t)
        c == C(t)
        d == D(t)
    IN  IF t.kind # "tally" THEN Raise(t.kind)
        ELSE ODiv(OMul(ODiv(OInt(a), OInt(2)), OInt(2 * a + b + c)),
                  OInt((a + b) * (a + c)))

sim_driver_kroeber(x, y) ==
    LET t == operational_taxonomic_units(x, y, NoMask)
        a == A(t)
        b == B(t)
        c == C(t)
        d == D(t)
    IN  IF t.kind # "tally" THEN Raise(t.kind)
        ELSE OMul(ODiv(OInt(a), OInt(2)),
                  OAdd(ODiv(OInt(1), OInt(a + b)), ODiv(OInt(1), OInt(a + c))))

sim_johnson(x, y) ==
    LET t == operational_taxonomic_units(x, y, NoMask)
        a == A(t)
        b == B(t)
        c == C(t)
        d == D(t)
    IN  IF t.kind # "tally" THEN Raise(t.kind)
        ELSE OAdd(ODiv(OInt(a), OInt(a + b)), ODiv(OInt(a), OInt(a + c)))

SimilarityFns ==
    {"jaccard", "dice", "czekanowski", "nei_li", "smc", "cosine", "pearson1",
     "pearson2", "pearson_heron1", "pearson3", "kulczynski1", "tanimoto",
     "faith", "gilbert_wells", "pearson_heron2", "yuleq", "yulew", "baroni_urbani_buser1", "baroni_urbani_buser2",
     "cole",
     "sokal_sneath4",
     "goodman_kruskal", "anderberg",
     "inner_product",
     "kulczynski2", "driver_kroeber", "johnson"}

similarity(f, x, y) ==
    CASE f = "jaccard" -> sim_jaccard(x, y)
      [] f = "dice" -> sim_dice(x, y)
      [] f = "czekanowski" -> sim_czekanowski(x, y)
      [] f = "nei_li" -> sim_nei_li(x, y)
      [] f = "smc" -> sim_smc(x, y)
      [] f = "cosine" -> sim_cosine(x, y)
      [] f = "pearson1" -> sim_pearson1(x, y)
      [] f = "pearson2" -> sim_pearson2(x, y)
      [] f = "pearson_heron1" -> sim_pearson_heron1(x, y)
      [] f = "pearson3" -> sim_pearson3(x, y)
      [] f = "kulczynski1" -> sim_kulczynski1(x, y)
      [] f = "tanimoto" -> sim_tanimoto(x, y)
      [] f = "faith" -> sim_faith(x, y)
      [] f = "gilbert_wells" -> sim_gilbert_wells(x, y)
      [] f = "pearson_heron2" -> sim_pearson_heron2(x, y)
      [] f = "yuleq" -> sim_yuleq(x, y)
      [] f = "yulew" -> sim_yulew(x, y)
      [] f = "baroni_urbani_buser1" -> sim_baroni_urbani_buser1(x, y)
      [] f = "baroni_urbani_buser2" -> sim_baroni_urbani_buser2(x, y)
      [] f = "cole" -> sim_cole(x, y)
      [] f = "sokal_sneath4" -> sim_sokal_sneath4(x, y)
      [] f = "goodman_kruskal" -> sim_goodman_kruskal(x, y)
      [] f = "anderberg" -> sim_anderberg(x, y)
      [] f = "inner_product" -> sim_inner_product(x, y)
      [] f = "kulczynski2" -> sim_kulczynski2(x, y)
      [] f = "driver_kroeber" -> sim_driver_kroeber(x, y)
      [] f = "johnson" -> sim_johnson(x, y)

\* ------------------------------------------------- similarity/group_d.py
grp_pearson1(x, y) ==
    LET t == operational_taxonomic_units(x, y, NoMask)
        a == A(t)
        b == B(t)
        c == C(t)
        d == D(t)
        n == a + b + c + d
    IN  IF t.kind # "tally" THEN Raise(t.kind)
        ELSE ODiv(OMul(OInt(n), OPow2(OInt(a * d - b * c))),
                  OInt((a + b) * (a + c) * (b + d) * (c + d)))

grp_pearson2(x, y) ==
    LET t == operational_taxonomic_units(x, y, NoMask)
        a == A(t)
        b == B(t)
        c == C(t)
        d == D(t)
        x_2 == grp_pearson1(x, y)
    IN  IF t.kind # "tally" THEN Raise(t.kind)
        ELSE OSqrt(ODiv(x_2, OAdd(OInt(a + b + c + d), x_2)))

grp_cole(x, y) ==
    LET t == operational_taxonomic_units(x, y, NoMask)
        a == A(t)
        b == B(t)
        c == C(t)
        d == D(t)
    IN  IF t.kind # "tally" THEN Raise(t.kind)
        ELSE IF a * d >= b * c
             THEN ODiv(OInt(a * d - b * c), OInt((a + b) * (b + d)))
        ELSE IF a * d < b * c /\ a <= d
             THEN ODiv(OInt(a * d - b * c), OInt((a + b) * (a + c)))
        ELSE ODiv(OInt(a * d - b * c), OInt((b + d) * (c + d)))

GroupDFns == {"pearson1", "pearson2",
     "cole"}

group_d(f, x, y) ==
    CASE f = "pearson1" -> grp_pearson1(x, y)
      [] f = "pearson2" -> grp_pearson2(x, y)
      [] f = "cole" -> grp_cole(x, y)

\* -------------------------------------------------- similarity_selected.py
\* The functions of similarity_selected.py and similarity_selected_old.py
\* take (x, y, mask=None) and hand the mask to the reduction.
sel_cosine(x, y, mask) ==
    LET t == operational_taxonomic_units(x, y, mask)
        a == A(t)
        b == B(t)
        c == C(t)
        d == D(t)
    IN  IF t.kind # "tally" THEN Raise(t.kind)
        ELSE ODiv(OInt(a), OSqrt(OInt((a + b) * (a + c))))

sel_gleason(x, y, mask) ==
    LET t == operational_taxonomic_units(x, y, mask)
        a == A(t)
        b == B(t)
        c == C(t)
        d == D(t)
    IN  IF t.kind # "tally" THEN Raise(t.kind)
        ELSE ODiv(OInt(2 * a), OInt(2 * a + b + c))

\* a slip: the co-absences counted as well
sel_intersection_with_d(x, y, mask) ==
    LET t == operational_taxonomic_units(x, y, mask)
    IN  IF t.kind # "tally" THEN Raise(t.kind) ELSE OInt(A(t) + D(t))

sel_intersection(x, y, mask) ==
    LET t == operational_taxonomic_units(x, y, mask)
    IN  IF t.kind # "tally" THEN Raise(t.kind) ELSE OInt(A(t))

\* a slip: the mask not handed to the reduction
sel_jaccard_nomask(x, y, mask) ==
    LET t == operational_taxonomic_units(x, y, NoMask)
        a == A(t)
        b == B(t)
        c == C(t)
    IN  IF t.kind # "tally" THEN Raise(t.kind)
        ELSE ODiv(OInt(a), OInt(a + b + c))

sel_jaccard(x, y, mask) ==
    LET t == operational_taxonomic_units(x, y, mask)
        a == A(t)
        b == B(t)
        c == C(t)
        d == D(t)
    IN  IF t.kind # "tally" THEN Raise(t.kind)
        ELSE ODiv(OInt(a), OInt(a + b + c))

sel_kulczynski1(x, y, mask) ==
    LET t == operational_taxonomic_units(x, y, mask)
        a == A(t)
        b == B(t)
        c == C(t)
        d == D(t)
    IN  IF t.kind # "tally" THEN Raise(t.kind)
        ELSE ODiv(OInt(a), OInt(b + c))

sel_pearson1(x, y, mask) ==
    LET t == operational_taxonomic_units(x, y, mask)
        a == A(t)
        b == B(t)
        c == C(t)
        d == D(t)
        n == a + b + c + d
    IN  IF t.kind # "tally" THEN Raise(t.kind)
        ELSE ODiv(OInt(n * ((a * d - b * c) * (a * d - b * c))),
                  OInt((a + b) * (a + c) * (b + d) * (c + d)))

\* a slip: the base coefficient called without the mask
sel_pearson2_unmasked_base(x, y, mask) ==
    LET t == operational_taxonomic_units(x, y, mask)
        a == A(t)
        b == B(t)
        c == C(t)
        d == D(t)
        x_2 == sel_pearson1(x, y, NoMask)
    IN  IF t.kind # "tally" THEN Raise(t.kind)
        ELSE OSqrt(ODiv(x_2, OAdd(OInt(a + b + c + d), x_2)))

sel_pearson2(x, y, mask) ==
    LET t == operational_taxonomic_units(x, y, mask)
        a == A(t)
        b == B(t)
        c == C(t)
        d == D(t)
        x_2 == sel_pearson1(x, y, mask)
    IN  IF t.kind # "tally" THEN Raise(t.kind)
        ELSE OSqrt(ODiv(x_2, OAdd(OInt(a + b + c + d), x_2)))

sel_pearson_heron1(x, y, mask) ==
    LET t == operational_taxonomic_units(x, y, mask)
        a == A(t)
        b == B(t)
        c == C(t)
        d == D(t)
    IN  IF t.kind # "tally" THEN Raise(t.kind)
        ELSE ODiv(OInt(a * d - b * c),
                  OSqrt(OInt((a + b) * (a + c) * (b + d) * (c + d))))

sel_pearson3(x, y, mask) ==
    LET t == operational_taxonomic_units(x, y, mask)
        a == A(t)
        b == B(t)
        c == C(t)
        d == D(t)
        p == sel_pearson_heron1(x, y, mask)
    IN  IF t.kind # "tally" THEN Raise(t.kind)
        ELSE OSqrt(ODiv(p, OAdd(OInt(a + b + c + d), p)))

\* a slip: the length of x as the denominator, masked-out positions included
sel_smc_len(x, y, mask) ==
    LET t == operational_taxonomic_units(x, y, mask)
        a == A(t)
        d == D(t)
    IN  IF t.kind # "tally" THEN Raise(t.kind)
        ELSE ODiv(OInt(a + d), OInt(x.size))

sel_smc(x, y, mask) ==
    LET t == operational_taxonomic_units(x, y, mask)
        a == A(t)
        b == B(t)
        c == C(t)
        d == D(t)
    IN  IF t.kind # "tally" THEN Raise(t.kind)
        ELSE ODiv(OInt(a + d), OInt(a + b + c + d))

\* a slip: a zero under the square root refused
sel_baroni_urbani_buser1_strict(x, y, mask) ==
    LET t == operational_taxonomic_units(x, y, mask)
        a == A(t)
        b == B(t)
        c == C(t)
        d == D(t)
    IN  IF t.kind # "tally" THEN Raise(t.kind)
        ELSE IF a * d = 0 THEN ValueError
        ELSE ODiv(OAdd(OSqrt(OInt(a * d)), OInt(a)),
                  OAdd(OSqrt(OInt(a * d)), OInt(a + b + c)))

sel_baroni_urbani_buser1(x, y, mask) ==
    LET t == operational_taxonomic_units(x, y, mask)
        a == A(t)
        b == B(t)
        c == C(t)
        d == D(t)
    IN  IF t.kind # "tally" THEN Raise(t.kind)
        ELSE ODiv(OAdd(OSqrt(OInt(a * d)), OInt(a)),
                  OAdd(OSqrt(OInt(a * d)), OInt(a + b + c)))

sel_baroni_urbani_buser2(x, y, mask) ==
    LET t == operational_taxonomic_units(x, y, mask)
        a == A(t)
        b == B(t)
        c == C(t)
        d == D(t)
    IN  IF t.kind # "tally" THEN Raise(t.kind)
        ELSE ODiv(OAdd(OSqrt(OInt(a * d)), OInt(a - b - c)),
                  OAdd(OSqrt(OInt(a * d)), OInt(a + b + c)))

\* a slip: b counted in the numerator
sel_faith_plus_b(x, y, mask) ==
    LET t == operational_taxonomic_units(x, y, mask)
        a == A(t)
        b == B(t)
        c == C(t)
        d == D(t)
    IN  IF t.kind # "tally" THEN Raise(t.kind)
        ELSE ODiv(OAdd(OInt(a + b), OMul(Ok(Rat2Num(Rat(1, 2))), OInt(d))), OInt(a + b + c + d))

sel_faith(x, y, mask) ==
    LET t == operational_taxonomic_units(x, y, mask)
        a == A(t)
        b == B(t)
        c == C(t)
        d == D(t)
    IN  IF t.kind # "tally" THEN Raise(t.kind)
        ELSE ODiv(OAdd(OInt(a), OMul(Ok(Rat2Num(Rat(1, 2))), OInt(d))), OInt(a + b + c + d))

\* float(math.cos(...))
sel_pearson_heron2(x, y, mask) ==
    LET t == operational_taxonomic_units(x, y, mask)
        a == A(t)
        b == B(t)
        c == C(t)
        d == D(t)
    IN  IF t.kind # "tally" THEN Raise(t.kind)
        ELSE OCos(ODiv(OMul(OPi, OSqrt(OInt(b * c))),
                       OAdd(OSqrt(OInt(a * d)), OSqrt(OInt(b * c)))))

\* a slip: b * c taken twice in the numerator
sel_yule1_double_bc(x, y, mask) ==
    LET t == operational_taxonomic_units(x, y, mask)
        a == A(t)
        b == B(t)
        c == C(t)
        d == D(t)
    IN  IF t.kind # "tally" THEN Raise(t.kind)
        ELSE ODiv(OInt(a * d - 2 * b * c), OInt(a * d + b * c))

sel_yule1(x, y, mask) ==
    LET t == operational_taxonomic_units(x, y, mask)
        a == A(t)
        b == B(t)
        c == C(t)
        d == D(t)
    IN  IF t.kind # "tally" THEN Raise(t.kind)
        ELSE ODiv(OInt(a * d - b * c), OInt(a * d + b * c))

sel_yule2(x, y, mask) ==
    LET t == operational_taxonomic_units(x, y, mask)
        a == A(t)
        b == B(t)
        c == C(t)
        d == D(t)
    IN  IF t.kind # "tally" THEN Raise(t.kind)
        ELSE ODiv(OSub(OSqrt(OInt(a * d)), OSqrt(OInt(b * c))),
                  OAdd(OSqrt(OInt(a * d)), OSqrt(OInt(b * c))))

\* a slip: the denominator of the middle branch on every branch
sel_cole_one_denominator(x, y, mask) ==
    LET t == operational_taxonomic_units(x, y, mask)
        a == A(t)
        b == B(t)
        c == C(t)
        d == D(t)
    IN  IF t.kind # "tally" THEN Raise(t.kind)
        ELSE ODiv(OInt(a * d - b * c), OInt((a + b) * (a + c)))

sel_cole(x, y, mask) ==
    LET t == operational_taxonomic_units(x, y, mask)
        a == A(t)
        b == B(t)
        c == C(t)
        d == D(t)
    IN  IF t.kind # "tally" THEN Raise(t.kind)
        ELSE IF a * d >= b * c
             THEN ODiv(OInt(a * d - b * c), OInt((a + b) * (b + d)))
        ELSE IF a * d < b * c /\ a <= d
             THEN ODiv(OInt(a * d - b * c), OInt((a + b) * (a + c)))
        ELSE ODiv(OInt(a * d - b * c), OInt((b + d) * (c + d)))

sel_sokal_sneath3(x, y, mask) ==
    LET t == operational_taxonomic_units(x, y, mask)
        a == A(t)
        b == B(t)
        c == C(t)
        d == D(t)
    IN  IF t.kind # "tally" THEN Raise(t.kind)
        ELSE OMul(Ok(Rat2Num(Rat(1, 4))),
                  OAdd(OAdd(OAdd(ODiv(OInt(a), OInt(a + b)), ODiv(OInt(a), OInt(a + c))),
                            ODiv(OInt(d), OInt(b + d))),
                       ODiv(OInt(d), OInt(c + d))))

\* a slip: n for 2 * n in the denominator
sel_anderberg_n_denominator(x, y, mask) ==
    LET t == operational_taxonomic_units(x, y, mask)
        a == A(t)
        b == B(t)
        c == C(t)
        d == D(t)
        n == a + b + c + d
        p1 == Max(a, b) + Max(c, d) + Max(a, c) + Max(b, d)
        p2 == Max(a + c, b + d) + Max(a + b, c + d)
    IN  IF t.kind # "tally" THEN Raise(t.kind)
        ELSE ODiv(OInt(p1 - p2), OInt(n))

sel_anderberg(x, y, mask) ==
    LET t == operational_taxonomic_units(x, y, mask)
        a == A(t)
        b == B(t)
        c == C(t)
        d == D(t)
        n == a + b + c + d
        p1 == Max(a, b) + Max(c, d) + Max(a, c) + Max(b, d)
        p2 == Max(a + c, b + d) + Max(a + b, c + d)
    IN  IF t.kind # "tally" THEN Raise(t.kind)
        ELSE ODiv(OInt(p1 - p2), OInt(2 * n))

sel_goodman_kruskal1(x, y, mask) ==
    LET t == operational_taxonomic_units(x, y, mask)
        a == A(t)
        b == B(t)
        c == C(t)
        d == D(t)
        n == a + b + c + d
        p1 == Max(a, b) + Max(c, d) + Max(a, c) + Max(b, d)
        p2 == Max(a + c, b + d) + Max(a + b, c + d)
    IN  IF t.kind # "tally" THEN Raise(t.kind)
        ELSE ODiv(OInt(p1 - p2), OInt(2 * n - p2))

sel_dice1(x, y, mask) ==
    LET t == operational_taxonomic_units(x, y, mask)
        a == A(t)
        b == B(t)
        c == C(t)
        d == D(t)
    IN  IF t.kind # "tally" THEN Raise(t.kind)
        ELSE ODiv(OInt(a), OInt(a + b))

\* a slip: the denominator of dice1
sel_dice2_over_b(x, y, mask) ==
    LET t == operational_taxonomic_units(x, y, mask)
        a == A(t)
        b == B(t)
        c == C(t)
        d == D(t)
    IN  IF t.kind # "tally" THEN Raise(t.kind)
        ELSE ODiv(OInt(a), OInt(a + b))

sel_dice2(x, y, mask) ==
    LET t == operational_taxonomic_units(x, y, mask)
        a == A(t)
        b == B(t)
        c == C(t)
        d == D(t)
    IN  IF t.kind # "tally" THEN Raise(t.kind)
        ELSE ODiv(OInt(a), OInt(a + c))

sel_peirce1(x, y, mask) ==
    LET t == operational_taxonomic_units(x, y, mask)
        a == A(t)
        b == B(t)
        c == C(t)
        d == D(t)
    IN  IF t.kind # "tally" THEN Raise(t.kind)
        ELSE ODiv(OInt(a * d - b * c), OInt((a + b) * (c + d)))

sel_peirce2(x, y, mask) ==
    LET t == operational_taxonomic_units(x, y, mask)
        a == A(t)
        b == B(t)
        c == C(t)
        d == D(t)
    IN  IF t.kind # "tally" THEN Raise(t.kind)
        ELSE ODiv(OInt(a * d - b * c), OInt((a + c) * (b + d)))

sel_cole1(x, y, mask) ==
    LET t == operational_taxonomic_units(x, y, mask)
        a == A(t)
        b == B(t)
        c == C(t)
        d == D(t)
    IN  IF t.kind # "tally" THEN Raise(t.kind)
        ELSE ODiv(OInt(a * d - b * c), OInt((a + c) * (c + d)))

sel_cole2(x, y, mask) ==
    LET t == operational_taxonomic_units(x, y, mask)
        a == A(t)
        b == B(t)
        c == C(t)
        d == D(t)
    IN  IF t.kind # "tally" THEN Raise(t.kind)
        ELSE ODiv(OInt(a * d - b * c), OInt((a + b) * (b + d)))

\* a slip: the factor 0.5 left out
sel_kulczynski2_no_half(x, y, mask) ==
    LET t == operational_taxonomic_units(x, y, mask)
        a == A(t)
        b == B(t)
        c == C(t)
        d == D(t)
    IN  IF t.kind # "tally" THEN Raise(t.kind)
        ELSE OAdd(ODiv(OInt(a), OInt(a + b)), ODiv(OInt(a), OInt(a + c)))

sel_kulczynski2(x, y, mask) ==
    LET t == operational_taxonomic_units(x, y, mask)
        a == A(t)
        b == B(t)
        c == C(t)
        d == D(t)
    IN  IF t.kind # "tally" THEN Raise(t.kind)
        ELSE OMul(Ok(Rat2Num(Rat(1, 2))),
                  OAdd(ODiv(OInt(a), OInt(a + b)), ODiv(OInt(a), OInt(a + c))))

SelectedFns ==
    {"cosine", "gleason", "intersection", "jaccard", "kulczynski1",
     "pearson1", "pearson2", "pearson_heron1", "pearson3", "smc",
     "baroni_urbani_buser1", "baroni_urbani_buser2", "faith", "pearson_heron2", "yule1", "yule2",
     "cole",
     "sokal_sneath3",
     "anderberg", "goodman_kruskal1",
     "dice1", "dice2", "peirce1", "peirce2", "cole1", "cole2",
     "kulczynski2"}

similarity_selected(f, x, y, mask) ==
    CASE f = "cosine" -> sel_cosine(x, y, mask)
      [] f = "gleason" -> sel_gleason(x, y, mask)
      [] f = "intersection" -> sel_intersection(x, y, mask)
      [] f = "jaccard" -> sel_jaccard(x, y, mask)
      [] f = "kulczynski1" -> sel_kulczynski1(x, y, mask)
      [] f = "pearson1" -> sel_pearson1(x, y, mask)
      [] f = "pearson2" -> sel_pearson2(x, y, mask)
      [] f = "pearson_heron1" -> sel_pearson_heron1(x, y, mask)
      [] f = "pearson3" -> sel_pearson3(x, y, mask)
      [] f = "smc" -> sel_smc(x, y, mask)
      [] f = "baroni_urbani_buser1" -> sel_baroni_urbani_buser1(x, y, mask)
      [] f = "baroni_urbani_buser2" -> sel_baroni_urbani_buser2(x, y, mask)
      [] f = "faith" -> sel_faith(x, y, mask)
      [] f = "pearson_heron2" -> sel_pearson_heron2(x, y, mask)
      [] f = "yule1" -> sel_yule1(x, y, mask)
      [] f = "yule2" -> sel_yule2(x, y, mask)
      [] f = "cole" -> sel_cole(x, y, mask)
      [] f = "sokal_sneath3" -> sel_sokal_sneath3(x, y, mask)
      [] f = "anderberg" -> sel_anderberg(x, y, mask)
      [] f = "goodman_kruskal1" -> sel_goodman_kruskal1(x, y, mask)
      [] f = "dice1" -> sel_dice1(x, y, mask)
      [] f = "dice2" -> sel_dice2(x, y, mask)
      [] f = "peirce1" -> sel_peirce1(x, y, mask)
      [] f = "peirce2" -> sel_peirce2(x, y, mask)
      [] f = "cole1" -> sel_cole1(x, y, mask)
      [] f = "cole2" -> sel_cole2(x, y, mask)
      [] f = "kulczynski2" -> sel_kulczynski2(x, y, mask)

\* ---------------------------------------------- similarity_selected_old.py
old_jaccard(x, y, mask) ==
    LET t == operational_taxonomic_units(x, y, mask)
        a == A(t)
        b == B(t)
        c == C(t)
        d == D(t)
    IN  IF t.kind # "tally" THEN Raise(t.kind)
        ELSE ODiv(OInt(a), OInt(a + b + c))

old_sorenson_dice(x, y, mask) ==
    LET t == operational_taxonomic_units(x, y, mask)
        a == A(t)
        b == B(t)
        c == C(t)
        d == D(t)
    IN  IF t.kind # "tally" THEN Raise(t.kind)
        ELSE ODiv(OInt(2 * a), OInt(2 * a + b + c))

old_czekanowski(x, y, mask) ==
    LET t == operational_taxonomic_units(x, y, mask)
        a == A(t)
        b == B(t)
        c == C(t)
        d == D(t)
    IN  IF t.kind # "tally" THEN Raise(t.kind)
        ELSE ODiv(OInt(2 * a), OInt(2 * a + b + c))

old_nei_li(x, y, mask) ==
    LET t == operational_taxonomic_units(x, y, mask)
        a == A(t)
        b == B(t)
        c == C(t)
        d == D(t)
    IN  IF t.kind # "tally" THEN Raise(t.kind)
        ELSE ODiv(OInt(2 * a), OInt(2 * a + b + c))

old_pearson1(x, y, mask) ==
    LET t == operational_taxonomic_units(x, y, mask)
        a == A(t)
        b == B(t)
        c == C(t)
        d == D(t)
        n == a + b + c + d
    IN  IF t.kind # "tally" THEN Raise(t.kind)
        ELSE ODiv(OInt(n * ((a * d - b * c) * (a * d - b * c))),
                  OInt((a + b) * (a + c) * (b + d) * (c + d)))

old_pearson2(x, y, mask) ==
    LET t == operational_taxonomic_units(x, y, mask)
        a == A(t)
        b == B(t)
        c == C(t)
        d == D(t)
        x_2 == old_pearson1(x, y, mask)
    IN  IF t.kind # "tally" THEN Raise(t.kind)
        ELSE OSqrt(ODiv(x_2, OAdd(OInt(a + b + c + d), x_2)))

old_pearson_heron1(x, y, mask) ==
    LET t == operational_taxonomic_units(x, y, mask)
        a == A(t)
        b == B(t)
        c == C(t)
        d == D(t)
    IN  IF t.kind # "tally" THEN Raise(t.kind)
        ELSE ODiv(OInt(a * d - b * c),
                  OSqrt(OInt((a + b) * (a + c) * (b + d) * (c + d))))

old_pearson3(x, y, mask) ==
    LET t == operational_taxonomic_units(x, y, mask)
        a == A(t)
        b == B(t)
        c == C(t)
        d == D(t)
        p == old_pearson_heron1(x, y, mask)
    IN  IF t.kind # "tally" THEN Raise(t.kind)
        ELSE OSqrt(ODiv(p, OAdd(OInt(a + b + c + d), p)))

\* a slip: the co-presences counted twice in the denominator
old_tanimoto_no_minus_a(x, y, mask) ==
    LET t == operational_taxonomic_units(x, y, mask)
        a == A(t)
        b == B(t)
        c == C(t)
    IN  IF t.kind # "tally" THEN Raise(t.kind)
        ELSE ODiv(OInt(a), OInt((a + b) + (a + c)))

old_tanimoto(x, y, mask) ==
    LET t == operational_taxonomic_units(x, y, mask)
        a == A(t)
        b == B(t)
        c == C(t)
        d == D(t)
    IN  IF t.kind # "tally" THEN Raise(t.kind)
        ELSE ODiv(OInt(a), OInt((a + b) + (a + c) - a))

old_gilbert_wells(x, y, mask) ==
    LET t == operational_taxonomic_units(x, y, mask)
        a == A(t)
        b == B(t)
        c == C(t)
        d == D(t)
        n == a + b + c + d
    IN  IF t.kind # "tally" THEN Raise(t.kind)
        ELSE OSubLog10(OSubLog10(OSubLog10(OLog10(OInt(a)), OLog10(OInt(n))),
                       OLog10(ODiv(OInt(a + b), OInt(n)))),
                  OLog10(ODiv(OInt(a + c), OInt(n))))

\* the value is computed and dropped: the function has no return statement
old_pearson_heron2(x, y, mask) ==
    LET t == operational_taxonomic_units(x, y, mask)
        a == A(t)
        b == B(t)
        c == C(t)
        d == D(t)
        value == OCos(ODiv(OMul(OPi, OSqrt(OInt(b * c))),
                             OAdd(OSqrt(OInt(a * d)), OSqrt(OInt(b * c)))))
    IN  IF t.kind # "tally" THEN Raise(t.kind)
        ELSE IF IsOk(value) THEN ReturnsNone ELSE value

old_cole(x, y, mask) ==
    LET t == operational_taxonomic_units(x, y, mask)
        a == A(t)
        b == B(t)
        c == C(t)
        d == D(t)
    IN  IF t.kind # "tally" THEN Raise(t.kind)
        ELSE ODiv(OMul(OSqrt(OInt(2)), OInt(a * d - b * c)),
                  OSqrt(OInt((a * d - b * c) * (a * d - b * c) - (a + b) * (a + c) * (b + d) * (c + d))))

old_sokal_sneath4(x, y, mask) ==
    LET t == operational_taxonomic_units(x, y, mask)
        a == A(t)
        b == B(t)
        c == C(t)
        d == D(t)
    IN  IF t.kind # "tally" THEN Raise(t.kind)
        ELSE ODiv(OAdd(OAdd(OAdd(ODiv(OInt(a), OInt(a + b)), ODiv(OInt(a), OInt(a + c))),
                            ODiv(OInt(d), OInt(b + d))),
                       ODiv(OInt(d), OInt(b + d))),
                  OInt(4))

old_kulczynski2(x, y, mask) ==
    LET t == operational_taxonomic_units(x, y, mask)
        a == A(t)
        b == B(t)
        c == C(t)
        d == D(t)
    IN  IF t.kind # "tally" THEN Raise(t.kind)
        ELSE ODiv(OMul(ODiv(OInt(a), OInt(2)), OInt(2 * a + b + c)),
                  OInt((a + b) * (a + c)))

old_driver_kroeber(x, y, mask) ==
    LET t == operational_taxonomic_units(x, y, mask)
        a == A(t)
        b == B(t)
        c == C(t)
        d == D(t)
    IN  IF t.kind # "tally" THEN Raise(t.kind)
        ELSE OMul(ODiv(OInt(a), OInt(2)),
                  OAdd(ODiv(OInt(1), OInt(a + b)), ODiv(OInt(1), OInt(a + c))))

old_johnson(x, y, mask) ==
    LET t == operational_taxonomic_units(x, y, mask)
        a == A(t)
        b == B(t)
        c == C(t)
        d == D(t)
    IN  IF t.kind # "tally" THEN Raise(t.kind)
        ELSE OAdd(ODiv(OInt(a), OInt(a + b)), ODiv(OInt(a), OInt(a + c)))

SelectedOldFns ==
    {"jaccard", "sorenson_dice", "czekanowski", "nei_li", "pearson1",
     "pearson2", "pearson_heron1", "pearson3", "tanimoto",
     "gilbert_wells", "pearson_heron2",
     "cole",
     "sokal_sneath4",
     "kulczynski2", "driver_kroeber", "johnson"}

similarity_selected_old(f, x, y, mask) ==
    CASE f = "jaccard" -> old_jaccard(x, y, mask)
      [] f = "sorenson_dice" -> old_sorenson_dice(x, y, mask)
      [] f = "czekanowski" -> old_czekanowski(x, y, mask)
      [] f = "nei_li" -> old_nei_li(x, y, mask)
      [] f = "pearson1" -> old_pearson1(x, y, mask)
      [] f = "pearson2" -> old_pearson2(x, y, mask)
      [] f = "pearson_heron1" -> old_pearson_heron1(x, y, mask)
      [] f = "pearson3" -> old_pearson3(x, y, mask)
      [] f = "tanimoto" -> old_tanimoto(x, y, mask)
      [] f = "gilbert_wells" -> old_gilbert_wells(x, y, mask)
      [] f = "pearson_heron2" -> old_pearson_heron2(x, y, mask)
      [] f = "cole" -> old_cole(x, y, mask)
      [] f = "sokal_sneath4" -> old_sokal_sneath4(x, y, mask)
      [] f = "kulczynski2" -> old_kulczynski2(x, y, mask)
      [] f = "driver_kroeber" -> old_driver_kroeber(x, y, mask)
      [] f = "johnson" -> old_johnson(x, y, mask)

\* ------------------------------------------------------------ state machine
\* x, y, mask: the arguments the caller holds; fn: the function whose call
\* has just ended, as << module, name >>, NoCall between calls; result: the outcome of the last coefficient call;
\* tally: the outcome of the last direct call of the reduction.
VARIABLES x, y, mask, fn, result, tally

vars == << x, y, mask, fn, result, tally >>

NoCall == << "", "" >>

NoResult == Raise("none")

\* the masks offered to vectors of length n: none, or any mask of that length
\* while the length is within MaxMaskLen
MasksOfLen(r, n) ==
    {NoMask} \cup (IF n <= MaxMaskLen THEN { Vector(r, ms) : ms \in BitSeqs(n) }
                   ELSE {})

\* vectors of one representation and one length, with or without a mask
ArgsOfLen(r, n) ==
    { << Vector(r, xs), Vector(r, ys), m >> :
        xs \in BitSeqs(n), ys \in BitSeqs(n), m \in MasksOfLen(r, n) }

\* short vectors of one representation whose lengths need not agree
ArgsOfLens(r, nx, ny, nm) ==
    { << Vector(r, xs), Vector(r, ys), Vector(r, ms) >> :
        xs \in BitSeqs(nx), ys \in BitSeqs(ny), ms \in BitSeqs(nm) }
    \cup { << Vector(r, xs), Vector(r, ys), NoMask >> :
             xs \in BitSeqs(nx), ys \in BitSeqs(ny) }

\* the vectors of the reference tests and of the boundary scenarios
ReferenceArgsOf(r) ==
    { << Vector(r, << 1, 1, 0, 0 >>), Vector(r, ys), m >> :
        ys \in { << 1, 0, 0, 1 >>, << 1, 1, 0, 0 >>, << 0, 0, 1, 1 >> },
        m \in { NoMask, Vector(r, << 1, 1, 0, 1 >>) } }

ReferenceArgs == UNION { ReferenceArgsOf(r) : r \in Reps }

\* calls in which x, y or the mask is of an unsupported type
UnsupportedArgsOf(r) ==
    LET v == Vector(r, << 1, 0 >>)
    IN  { << Opaque, v, NoMask >>, << v, Opaque, NoMask >>, << v, v, Opaque >> }

UnsupportedArgs ==
    { << Opaque, Opaque, NoMask >>, << Opaque, Opaque, Opaque >> }
    \cup UNION { UnsupportedArgsOf(r) : r \in Reps }

Args ==
    UNION { ArgsOfLen(r, n) : r \in Reps, n \in 0..MaxLen }
    \cup ReferenceArgs
    \cup UnsupportedArgs
    \cup UNION { ArgsOfLens(r, nx, ny, nm) :
                   r \in Reps, nx \in 0..MaxBadLen, ny \in 0..MaxBadLen,
                   nm \in 0..MaxBadLen }

Init ==
    /\ \E args \in Args : x = args[1] /\ y = args[2] /\ mask = args[3]
    /\ fn = NoCall
    /\ result = NoResult
    /\ tally = NoTally("none")

\* operational_taxonomic_units(x, y, mask) called directly
CallReduction ==
    /\ fn = NoCall
    /\ fn' = << "utils", "operational_taxonomic_units" >>
    /\ tally' = operational_taxonomic_units(x, y, mask)
    /\ result' = NoResult
    /\ UNCHANGED << x, y, mask >>

\* f(x, y) or f(x, y, mask=mask) for a function f of distance.py; the
\* functions have no parameter named mask, so the second form is a TypeError
CallDistance ==
    /\ fn = NoCall
    /\ \E f \in DistanceFns :
          /\ fn' = << "distance", f >>
          /\ result' = IF mask # NoMask THEN TypeError ELSE distance(f, x, y)
    /\ tally' = NoTally("none")
    /\ UNCHANGED << x, y, mask >>

CallSimilarity ==
    /\ fn = NoCall
    /\ \E f \in SimilarityFns :
          /\ fn' = << "similarity", f >>
          /\ result' = IF mask # NoMask THEN TypeError ELSE similarity(f, x, y)
    /\ tally' = NoTally("none")
    /\ UNCHANGED << x, y, mask >>

CallGroupD ==
    /\ fn = NoCall
    /\ \E f \in GroupDFns :
          /\ fn' = << "group_d", f >>
          /\ result' = IF mask # NoMask THEN TypeError ELSE group_d(f, x, y)
    /\ tally' = NoTally("none")
    /\ UNCHANGED << x, y, mask >>

\* as CallSelected, but applying the mask to x in place
CallSelected_masks_x_in_place ==
    /\ fn = NoCall
    /\ \E f \in SelectedFns :
          /\ fn' = << "similarity_selected", f >>
          /\ result' = similarity_selected(f, x, y, mask)
    /\ tally' = NoTally("none")
    /\ x' = IF mask = NoMask \/ mask.size # x.size THEN x
            ELSE Vector(x.rep, project(Content(x), Content(mask)))
    /\ UNCHANGED << y, mask >>

\* f(x, y) or f(x, y, mask) for a function f of similarity_selected.py
CallSelected ==
    /\ fn = NoCall
    /\ \E f \in SelectedFns :
          /\ fn' = << "similarity_selected", f >>
          /\ result' = similarity_selected(f, x, y, mask)
    /\ tally' = NoTally("none")
    /\ UNCHANGED << x, y, mask >>

\* as CallSelectedOld, but reading a mask slot shared with the other calls,
\* which an interleaved call without a mask may have cleared
CallSelectedOld_shared_mask ==
    /\ fn = NoCall
    /\ \E f \in SelectedOldFns, m \in {mask, NoMask} :
          /\ fn' = << "similarity_selected_old", f >>
          /\ result' = similarity_selected_old(f, x, y, m)
    /\ tally' = NoTally("none")
    /\ UNCHANGED << x, y, mask >>

CallSelectedOld ==
    /\ fn = NoCall
    /\ \E f \in SelectedOldFns :
          /\ fn' = << "similarity_selected_old", f >>
          /\ result' = similarity_selected_old(f, x, y, mask)
    /\ tally' = NoTally("none")
    /\ UNCHANGED << x, y, mask >>

\* the caller takes the outcome and is ready for the next call
Return ==
    /\ fn # NoCall
    /\ fn' = NoCall
    /\ result' = NoResult
    /\ tally' = NoTally("none")
    /\ UNCHANGED << x, y, mask >>

\* between two calls the caller passes on to other vectors: those of the
\* reference tests, or the same pair in the other order
Rebind ==
    /\ fn = NoCall
    /\ \E args \in ReferenceArgs \cup { << y, x, mask >> } :
          x' = args[1] /\ y' = args[2] /\ mask' = args[3]
    /\ UNCHANGED << fn, result, tally >>

Next ==
    \/ CallReduction
    \/ CallDistance
    \/ CallSimilarity
    \/ CallGroupD
    \/ CallSelected
    \/ CallSelectedOld
    \/ Return
    \/ Rebind

Spec == Init /\ [][Next]_vars

\* no modelled formula leaves the numbers the model can represent
Represented == result.kind # "Unrepresented"

\* ------------------------------------------------------------------ claims
\* The arguments of the call that has just ended, read position by position.
SupportedArgs ==
    Supported(x) /\ Supported(y) /\ (mask = NoMask \/ Supported(mask))

SameLengths ==
    SupportedArgs /\ x.size = y.size /\ (mask = NoMask \/ mask.size = x.size)

Included(i) == mask = NoMask \/ Content(mask)[i] = 1

\* the included positions where x holds p and y holds q
Positions(p, q) ==
    { i \in 1..x.size : Included(i) /\ Content(x)[i] = p /\ Content(y)[i] = q }

Count(p, q) == Cardinality(Positions(p, q))

Called(m, f) == fn = << m, f >>

ReductionCalled == Called("utils", "operational_taxonomic_units")

\* x and y with the masked-out positions removed
Projected(v) == Vector(v.rep, project(Content(v), Content(mask)))

\* the same flags in the other representation
OtherRep(v) ==
    IF ~Supported(v) THEN v
    ELSE Vector(IF v.rep = "ndarray" THEN "bitset" ELSE "ndarray", Content(v))

\* C1: without a mask the reduction returns a = #(x=1, y=1), b = #(x=1, y=0),
\* c = #(x=0, y=1), d = #(x=0, y=0), each position counted exactly once;
\* intersection returns a and hamming returns b + c of these counts.
C1_TallyCounts ==
    (mask = NoMask /\ SameLengths) =>
        /\ ReductionCalled =>
              /\ tally = Tally(Count(1, 1), Count(1, 0), Count(0, 1), Count(0, 0))
              /\ N(tally) = x.size
        /\ Called("similarity_selected", "intersection") =>
              result = OInt(Count(1, 1))
        /\ Called("distance", "hamming") =>
              result = OInt(Count(1, 0) + Count(0, 1))

C1_Witness ==
    /\ ReductionCalled
    /\ mask = NoMask
    /\ Content(x) = << 1, 1, 0, 0 >>
    /\ Content(y) = << 1, 0, 0, 1 >>
    /\ tally = Tally(1, 1, 1, 1)

\* C2: the four counts are never negative and sum to the length of x without
\* a mask and to the number of 1s of the mask with one; smc, (a+d)/(a+b+c+d),
\* is the share of agreeing positions among the included ones only.
PopCount(v) == Cardinality({ i \in 1..v.size : Content(v)[i] = 1 })

C2_TallyConservation ==
    SameLengths =>
        /\ ReductionCalled =>
              /\ tally.kind = "tally"
              /\ \A k \in 1..4 : tally.abcd[k] >= 0
              /\ N(tally) = IF mask = NoMask THEN x.size ELSE PopCount(mask)
        /\ Called("similarity_selected", "smc") =>
              result = ODiv(OInt(Count(1, 1) + Count(0, 0)),
                            OInt(IF mask = NoMask THEN x.size ELSE PopCount(mask)))

C2_Witness ==
    /\ ReductionCalled
    /\ Content(x) = << 1, 1, 0, 0 >>
    /\ Content(y) = << 1, 0, 0, 1 >>
    /\ mask # NoMask
    /\ Content(mask) = << 1, 1, 0, 1 >>
    /\ N(tally) = 3
    /\ D(tally) = 0

\* C3: the tally with a mask is the tally without a mask of the projected
\* vectors, and so is every coefficient of similarity_selected.py; the
\* reference vectors with mask [1,1,0,1] give (1, 1, 1, 0).
C3_MaskProjection ==
    (mask # NoMask /\ SameLengths) =>
        /\ ReductionCalled =>
              /\ tally = operational_taxonomic_units(Projected(x), Projected(y), NoMask)
              /\ (/\ Content(x) = << 1, 1, 0, 0 >>
                  /\ Content(y) = << 1, 0, 0, 1 >>
                  /\ Content(mask) = << 1, 1, 0, 1 >>) => tally = Tally(1, 1, 1, 0)
        /\ fn[1] = "similarity_selected" =>
              result = similarity_selected(fn[2], Projected(x), Projected(y), NoMask)

C3_Witness ==
    /\ Called("similarity_selected", "jaccard")
    /\ Content(x) = << 1, 1, 0, 0 >>
    /\ Content(y) = << 1, 0, 0, 1 >>
    /\ mask # NoMask
    /\ Content(mask) = << 1, 1, 0, 1 >>
    /\ result = ODiv(OInt(1), OInt(3))

\* C4: an ndarray and a bitset with the same flags give the same tally, and
\* every function of similarity.py and of distance.py gives the same outcome.
C4_RepresentationEquivalence ==
    /\ ReductionCalled =>
          tally = operational_taxonomic_units(OtherRep(x), OtherRep(y), OtherRep(mask))
    /\ (fn[1] = "similarity" /\ mask = NoMask) =>
          result = similarity(fn[2], OtherRep(x), OtherRep(y))
    /\ (fn[1] = "distance" /\ mask = NoMask) =>
          result = distance(fn[2], OtherRep(x), OtherRep(y))

C4_Witness ==
    /\ Called("similarity", "jaccard")
    /\ x = Bitset(<< 1, 1, 0, 0 >>)
    /\ y = Bitset(<< 1, 0, 0, 1 >>)
    /\ mask = NoMask
    /\ result = sim_jaccard(Ndarray(<< 1, 1, 0, 0 >>), Ndarray(<< 1, 0, 0, 1 >>))
    /\ IsOk(result)

\* C5: every function of distance.py and similarity.py takes an optional mask
\* and f(x, y, mask=mask) is f of the projected vectors.
C5_MaskAccepted ==
    (mask # NoMask /\ SameLengths) =>
        /\ fn[1] = "distance" =>
              result = distance(fn[2], Projected(x), Projected(y))
        /\ fn[1] = "similarity" =>
              result = similarity(fn[2], Projected(x), Projected(y))

\* C6: when the lengths of x, y and a supplied mask do not agree, the
\* reduction and every coefficient call end in LengthMismatch, with no tally.
C6_LengthMismatch ==
    (fn # NoCall /\ ~SameLengths) =>
        IF ReductionCalled THEN tally = NoTally("LengthMismatch")
        ELSE result = LengthMismatch

\* C7: pearson2 is sqrt(p1 / (n + p1)) of the pearson1 call with the same
\* x, y, mask, and pearson3 is sqrt(p / (n + p)) of the pearson_heron1 call
\* with the same x, y, mask: a non-negative number whose square times
\* (n + p) is p.
IsSqrtOfRatio(res, p, n) ==
    /\ IsOk(res)
    /\ NumSign(res.num) >= 0
    /\ OMul(Ok(NumSquare(res.num)), OAdd(OInt(n), p)) = p

TallySize(m) == N(operational_taxonomic_units(x, y, m))

\* the base coefficient of the two-stage coefficient just called
BaseCall ==
    CASE Called("similarity", "pearson2") -> sim_pearson1(x, y)
      [] Called("similarity", "pearson3") -> sim_pearson_heron1(x, y)
      [] Called("group_d", "pearson2") -> grp_pearson1(x, y)
      [] Called("similarity_selected", "pearson2") -> sel_pearson1(x, y, mask)
      [] Called("similarity_selected", "pearson3") -> sel_pearson_heron1(x, y, mask)
      [] Called("similarity_selected_old", "pearson2") -> old_pearson1(x, y, mask)
      [] Called("similarity_selected_old", "pearson3") -> old_pearson_heron1(x, y, mask)

TwoStageCalled ==
    /\ fn[2] \in {"pearson2", "pearson3"}
    /\ fn[1] \in {"similarity", "group_d"} => mask = NoMask

\* C7 as stated: the composition holds wherever the base coefficient is defined
C7_TwoStageWhereBaseDefined ==
    (TwoStageCalled /\ IsOk(BaseCall)) =>
        IsSqrtOfRatio(result, BaseCall, TallySize(mask))

\* C7 as amended: it holds where the base coefficient is defined and not
\* negative; where pearson_heron1 is negative pearson3 ends in a domain error.
C7_TwoStage ==
    (TwoStageCalled /\ IsOk(BaseCall)) =>
        IF NumSign(BaseCall.num) >= 0
        THEN IsSqrtOfRatio(result, BaseCall, TallySize(mask))
        ELSE fn[2] = "pearson3" /\ result = ValueError

C7_Witness ==
    /\ Called("similarity_selected", "pearson3")
    /\ mask # NoMask
    /\ PopCount(mask) < x.size
    /\ IsOk(result)
    /\ NumSign(result.num) > 0

\* C8: a coefficient whose denominator is zero ends in an arithmetic error,
\* never in a substituted 0 or 1.
Denominator(f) ==
    LET a == Count(1, 1)
        b == Count(1, 0)
        c == Count(0, 1)
        d == Count(0, 0)
    IN  CASE f \in {"jaccard", "tanimoto"} -> a + b + c
          [] f \in {"dice", "czekanowski", "nei_li", "sorenson_dice", "gleason"} ->
                2 * a + b + c
          [] f = "cosine" -> (a + b) * (a + c)
          [] f = "smc" -> a + b + c + d
          [] f = "kulczynski1" -> b + c
          [] f \in {"pearson1", "pearson2", "pearson_heron1", "pearson3"} ->
                (a + b) * (a + c) * (b + d) * (c + d)
          [] OTHER -> 1

SimilarityCalled ==
    \/ fn[1] \in {"similarity", "group_d"} /\ mask = NoMask
    \/ fn[1] \in {"similarity_selected", "similarity_selected_old"}

C8_DegenerateInputs ==
    (SimilarityCalled /\ SameLengths /\ Denominator(fn[2]) = 0) =>
        result = ZeroDivisionError

C8_Witness ==
    /\ Called("similarity", "cosine")
    /\ x.size = 3
    /\ PopCount(x) = 0
    /\ PopCount(y) = 0
    /\ result = ZeroDivisionError

\* C9: jaccard, dice / gleason and smc give the same outcome on (x, y) and on
\* (y, x); swapping the arguments swaps b and c of the tally and keeps a, d.
C9_Symmetry ==
    /\ ReductionCalled =>
          LET s == operational_taxonomic_units(y, x, mask)
          IN  /\ tally.kind = s.kind
              /\ tally.abcd = << A(s), C(s), B(s), D(s) >>
    /\ mask = NoMask =>
          /\ Called("similarity", "jaccard") => result = sim_jaccard(y, x)
          /\ Called("similarity", "dice") => result = sim_dice(y, x)
          /\ Called("similarity", "smc") => result = sim_smc(y, x)
    /\ Called("similarity_selected", "jaccard") => result = sel_jaccard(y, x, mask)
    /\ Called("similarity_selected", "gleason") => result = sel_gleason(y, x, mask)
    /\ Called("similarity_selected", "smc") => result = sel_smc(y, x, mask)

C9_Witness ==
    /\ Called("similarity", "dice")
    /\ mask = NoMask
    /\ SameLengths
    /\ Count(1, 0) = 2
    /\ Count(0, 1) = 0
    /\ Count(1, 1) = 1
    /\ result = ODiv(OInt(2), OInt(4))

\* C10: the aliases give the same outcome on every input: dice, czekanowski,
\* nei_li, sorenson_dice and gleason; jaccard and tanimoto, also as
\* a / ((a + b) + (a + c) - a).
C10_Aliases ==
    /\ (Called("similarity", "dice") /\ mask = NoMask) =>
          /\ result = sim_czekanowski(x, y)
          /\ result = sim_nei_li(x, y)
          /\ result = old_sorenson_dice(x, y, NoMask)
          /\ result = sel_gleason(x, y, NoMask)
    /\ Called("similarity_selected_old", "sorenson_dice") =>
          /\ result = old_czekanowski(x, y, mask)
          /\ result = old_nei_li(x, y, mask)
          /\ result = sel_gleason(x, y, mask)
    /\ (Called("similarity", "jaccard") /\ mask = NoMask) =>
          /\ result = sim_tanimoto(x, y)
          /\ result = old_tanimoto(x, y, NoMask)
    /\ Called("similarity_selected_old", "jaccard") =>
          /\ result = old_tanimoto(x, y, mask)
          /\ result = sel_jaccard(x, y, mask)
    /\ Called("similarity_selected_old", "tanimoto") =>
          result = old_jaccard(x, y, mask)

C10_Witness ==
    /\ Called("similarity_selected_old", "tanimoto")
    /\ SameLengths
    /\ Count(1, 1) = 1
    /\ Count(1, 0) = 1
    /\ Count(0, 1) = 1
    /\ result = ODiv(OInt(1), OInt(3))

\* C11: a call without a mask gives the same tally and the same result as
\* the call with a mask of the same length whose positions are all 1, for the
\* reduction and for every coefficient.
AllOnes == mask # NoMask /\ PopCount(mask) = mask.size

C11_AllOnesMask ==
    (AllOnes /\ SameLengths) =>
        /\ ReductionCalled => tally = operational_taxonomic_units(x, y, NoMask)
        /\ fn[1] = "distance" => result = distance(fn[2], x, y)
        /\ fn[1] = "similarity" => result = similarity(fn[2], x, y)
        /\ fn[1] = "group_d" => result = group_d(fn[2], x, y)
        /\ fn[1] = "similarity_selected" =>
              result = similarity_selected(fn[2], x, y, NoMask)
        /\ fn[1] = "similarity_selected_old" =>
              result = similarity_selected_old(fn[2], x, y, NoMask)

\* C12: every coefficient call ends with a single number or with an error;
\* none ends with None.
ErrorKinds ==
    {"ZeroDivisionError", "ValueError", "TypeError", "LengthMismatch",
     "UnsupportedRepresentation"}

C12_SingleNumber ==
    (fn # NoCall /\ ~ReductionCalled) =>
        (result.kind = "value" \/ result.kind \in ErrorKinds)

\* C13: no coefficient call and no reduction call modifies its arguments:
\* across every call step, successful or failing, x, y and mask keep their
\* values.
C13_ArgumentsKept ==
    [][fn' # NoCall => (x' = x /\ y' = y /\ mask' = mask)]_vars

C13_Witness ==
    /\ Called("similarity_selected", "pearson2")
    /\ mask # NoMask
    /\ SameLengths
    /\ PopCount(mask) < mask.size
    /\ result = ZeroDivisionError

\* what the code computes for module m, function f from the arguments alone
CallOutcome(m, f, vx, vy, vm) ==
    CASE m = "distance" -> IF vm # NoMask THEN TypeError ELSE distance(f, vx, vy)
      [] m = "similarity" -> IF vm # NoMask THEN TypeError ELSE similarity(f, vx, vy)
      [] m = "group_d" -> IF vm # NoMask THEN TypeError ELSE group_d(f, vx, vy)
      [] m = "similarity_selected" -> similarity_selected(f, vx, vy, vm)
      [] m = "similarity_selected_old" -> similarity_selected_old(f, vx, vy, vm)

YuleQCalled ==
    \/ Called("similarity", "yuleq") /\ mask = NoMask
    \/ Called("similarity_selected", "yule1")

Between(lo, o, hi) ==
    /\ IsOk(o)
    /\ NumSign(OSub(o, OInt(lo)).num) >= 0
    /\ NumSign(OSub(OInt(hi), o).num) >= 0

C15_YuleQRange ==
    LET a == Count(1, 1)
        b == Count(1, 0)
        c == Count(0, 1)
        d == Count(0, 0)
    IN  (YuleQCalled /\ SameLengths /\ a * d + b * c > 0) =>
            /\ 0 - (a * d + b * c) <= a * d - b * c
            /\ a * d - b * c <= a * d + b * c
            /\ result = ODiv(OInt(a * d - b * c), OInt(a * d + b * c))
            /\ Between(0 - 1, result, 1)

C15_Witness ==
    /\ Called("similarity_selected", "yule1")
    /\ SameLengths
    /\ Count(1, 1) * Count(0, 0) = 0
    /\ Count(1, 0) * Count(0, 1) > 0
    /\ result = OInt(0 - 1)

\* C16 as stated: every coefficient whose formula contains sqrt(a*d)
\* (baroni_urbani_buser1, baroni_urbani_buser2, yulew / yule2,
\* pearson_heron2) fails and returns no number when a = 0 or d = 0.
SqrtAdFns == {"baroni_urbani_buser1", "baroni_urbani_buser2", "pearson_heron2"}

SqrtAdCalled ==
    \/ fn[1] = "similarity" /\ fn[2] \in SqrtAdFns \cup {"yulew"} /\ mask = NoMask
    \/ fn[1] = "similarity_selected" /\ fn[2] \in SqrtAdFns \cup {"yule2"}

C16_SqrtNeedsPositive ==
    (SqrtAdCalled /\ SameLengths /\ (Count(1, 1) = 0 \/ Count(0, 0) = 0)) =>
        ~IsOk(result)

\* C16: with a = 0 or d = 0, sqrt(a*d) is 0 and raises nothing:
\* baroni_urbani_buser1 returns a / (a+b+c), baroni_urbani_buser2 returns
\* (a-b-c) / (a+b+c), yulew / yule2 and pearson_heron2 return -1 when
\* b*c > 0; the only failure is the division by a zero denominator.
C16_SqrtOfZero ==
    LET a == Count(1, 1)
        b == Count(1, 0)
        c == Count(0, 1)
        d == Count(0, 0)
    IN  (SqrtAdCalled /\ SameLengths /\ (a = 0 \/ d = 0)) =>
            /\ fn[2] = "baroni_urbani_buser1" =>
                  result = ODiv(OInt(a), OInt(a + b + c))
            /\ fn[2] = "baroni_urbani_buser2" =>
                  result = ODiv(OInt(a - b - c), OInt(a + b + c))
            /\ fn[2] \in {"yulew", "yule2", "pearson_heron2"} =>
                  result = IF b * c = 0 THEN ZeroDivisionError ELSE OInt(0 - 1)
            /\ result # ValueError

C16_Witness ==
    /\ Called("similarity_selected", "baroni_urbani_buser1")
    /\ SameLengths
    /\ Count(0, 0) = 0
    /\ Count(1, 1) = 1
    /\ Count(1, 0) = 1
    /\ result = ODiv(OInt(1), OInt(2))

\* C17: gilbert_wells of similarity.py and of similarity_selected_old.py
\* takes the logarithm of a: with a = 0 the call fails with a domain error
\* and returns no number.
GilbertWellsCalled ==
    \/ Called("similarity", "gilbert_wells") /\ mask = NoMask
    \/ Called("similarity_selected_old", "gilbert_wells")

C17_LogNeedsPositive ==
    (GilbertWellsCalled /\ SameLengths /\ Count(1, 1) = 0) =>
        result = ValueError

C17_Witness ==
    /\ Called("similarity", "gilbert_wells")
    /\ mask = NoMask
    /\ SameLengths
    /\ Count(1, 1) = 0
    /\ Count(1, 0) = 2
    /\ Count(0, 1) = 2
    /\ result = ValueError

\* C18 as stated: faith is asymmetric: some equal-length x, y have
\* faith(x, y) # faith(y, x).
EqualLengthPairs ==
    { args \in Args : args[3] = NoMask /\ args[1].size = args[2].size }

C18_FaithAsymmetric ==
    \E args \in EqualLengthPairs :
        \/ sim_faith(args[1], args[2]) # sim_faith(args[2], args[1])
        \/ sel_faith(args[1], args[2], NoMask) # sel_faith(args[2], args[1], NoMask)

\* C18: faith is symmetric: faith(x, y) = faith(y, x) for all x, y, with
\* or without a mask, since (a + 0.5 * d) / (a + b + c + d) has b and c only
\* in their sum.
C18_FaithSymmetric ==
    /\ (Called("similarity", "faith") /\ mask = NoMask) => result = sim_faith(y, x)
    /\ Called("similarity_selected", "faith") => result = sel_faith(y, x, mask)

C18_Witness ==
    /\ Called("similarity_selected", "faith")
    /\ SameLengths
    /\ Count(1, 1) = 1
    /\ Count(1, 0) = 2
    /\ Count(0, 1) = 0
    /\ result = ODiv(OInt(1), OInt(3))

\* C19: identical vectors: for y = x of length L the tally is
\* (popcount(x), 0, 0, L - popcount(x)); jaccard(x, x) = 1 when x has a 1 and
\* smc(x, x) = 1 when L > 0; for x = y = [1,1,0,0] the tally is (2,0,0,2).
JaccardCalled ==
    \/ Called("similarity", "jaccard")
    \/ Called("similarity_selected", "jaccard")
    \/ Called("similarity_selected_old", "jaccard")

SmcCalled == Called("similarity", "smc") \/ Called("similarity_selected", "smc")

C19_IdenticalVectors ==
    (y = x /\ mask = NoMask /\ SupportedArgs) =>
        /\ ReductionCalled =>
              /\ tally = Tally(PopCount(x), 0, 0, x.size - PopCount(x))
              /\ Content(x) = << 1, 1, 0, 0 >> => tally = Tally(2, 0, 0, 2)
        /\ (JaccardCalled /\ PopCount(x) > 0) => result = OInt(1)
        /\ (SmcCalled /\ x.size > 0) => result = OInt(1)

C19_Witness ==
    /\ Called("similarity", "smc")
    /\ mask = NoMask
    /\ Content(x) = << 1, 1, 0, 0 >>
    /\ y = x
    /\ result = OInt(1)

\* C20: disjoint vectors: for equal-length x, y with no position where both
\* are 1 the tally has a = 0, b = popcount(x), c = popcount(y); jaccard is 0
\* when x or y has a 1; for x = [1,1,0,0], y = [0,0,1,1] the tally is
\* (0,2,2,0).
Disjoint == \A i \in 1..x.size : Content(x)[i] = 0 \/ Content(y)[i] = 0

C20_DisjointVectors ==
    (SameLengths /\ mask = NoMask /\ Disjoint) =>
        /\ ReductionCalled =>
              /\ tally.kind = "tally"
              /\ A(tally) = 0
              /\ B(tally) = PopCount(x)
              /\ C(tally) = PopCount(y)
              /\ (Content(x) = << 1, 1, 0, 0 >> /\ Content(y) = << 0, 0, 1, 1 >>) =>
                    tally = Tally(0, 2, 2, 0)
        /\ (JaccardCalled /\ PopCount(x) + PopCount(y) > 0) => result = OInt(0)

C20_Witness ==
    /\ Called("similarity", "jaccard")
    /\ mask = NoMask
    /\ Content(x) = << 1, 1, 0, 0 >>
    /\ Content(y) = << 0, 0, 1, 1 >>
    /\ result = OInt(0)

\* C21: given a vector whose type offers neither index access nor set
\* operations, the reduction ends in UnsupportedRepresentation and returns
\* no tally; it never guesses four numbers.
C21_UnsupportedRepresentation ==
    (ReductionCalled /\ ~SupportedArgs) =>
        /\ tally.kind # "tally"
        /\ tally = NoTally("UnsupportedRepresentation")

C21_Witness ==
    /\ ReductionCalled
    /\ x = Opaque
    /\ Supported(y)
    /\ tally = NoTally("UnsupportedRepresentation")

\* C22: pearson3 returns a number only when a*d >= b*c: with a*d < b*c and
\* the four marginals non-zero, pearson_heron1 is in [-1, 0), n + p is
\* positive, the radicand p / (n + p) is negative and the call ends in the
\* domain error of sqrt.
Pearson3Called ==
    \/ Called("similarity", "pearson3") /\ mask = NoMask
    \/ Called("similarity_selected", "pearson3")

C22_Pearson3Domain ==
    LET a == Count(1, 1)
        b == Count(1, 0)
        c == Count(0, 1)
        d == Count(0, 0)
        p == IF fn[1] = "similarity" THEN sim_pearson_heron1(x, y)
             ELSE sel_pearson_heron1(x, y, mask)
        np == OAdd(OInt(a + b + c + d), p)
    IN  (Pearson3Called /\ SameLengths) =>
            /\ IsOk(result) => a * d >= b * c
            /\ (/\ a * d < b * c
                /\ (a + b) * (a + c) * (b + d) * (c + d) # 0) =>
                  /\ Between(0 - 1, p, 0)
                  /\ NumSign(p.num) < 0
                  /\ IsOk(np)
                  /\ NumSign(np.num) > 0
                  /\ NumSign(ODiv(p, np).num) < 0
                  /\ result = ValueError

C22_Witness ==
    /\ Called("similarity_selected", "pearson3")
    /\ SameLengths
    /\ Count(1, 1) = 0
    /\ Count(1, 0) = 1
    /\ Count(0, 1) = 1
    /\ Count(0, 0) = 1
    /\ sel_pearson_heron1(x, y, mask) = Ok(Rat2Num(Rat(0 - 1, 2)))
    /\ result = ValueError

\* C23: cole of similarity.py and of similarity_selected_old.py never returns
\* a number: (a*d - b*c)^2 - (a+b)(a+c)(b+d)(c+d) <= 0 for every tally, so
\* the call ends in the domain error of sqrt (radicand < 0) or in a division
\* by zero (radicand = 0).
RootColeCalled ==
    \/ Called("similarity", "cole") /\ mask = NoMask
    \/ Called("similarity_selected_old", "cole")

PiecewiseColeCalled ==
    \/ Called("group_d", "cole") /\ mask = NoMask
    \/ Called("similarity_selected", "cole")

C24_PiecewiseCole ==
    LET a == Count(1, 1)
        b == Count(1, 0)
        c == Count(0, 1)
        d == Count(0, 0)
        branch1 == a * d >= b * c
        branch2 == a * d < b * c /\ a <= d
        branch3 == a * d < b * c /\ a > d
        den == IF branch1 THEN (a + b) * (b + d)
               ELSE IF branch2 THEN (a + b) * (a + c)
               ELSE (b + d) * (c + d)
    IN  (PiecewiseColeCalled /\ SameLengths) =>
            /\ Cardinality({ i \in 1..3 : << branch1, branch2, branch3 >>[i] }) = 1
            /\ result = ODiv(OInt(a * d - b * c), OInt(den))
            /\ den # 0 => Between(0 - 1, result, 1)
            /\ den = 0 => result = ZeroDivisionError

C24_Witness ==
    /\ Called("similarity_selected", "cole")
    /\ SameLengths
    /\ Count(1, 1) = 1
    /\ Count(1, 0) = 1
    /\ Count(0, 1) = 1
    /\ Count(0, 0) = 0
    /\ result = OInt(0 - 1)

\* C25: sokal_sneath4 of similarity.py and similarity_selected_old.py is
\* symmetric, sokal_sneath4(x, y) = sokal_sneath4(y, x) wherever it is
\* defined, and there it equals sokal_sneath3 of similarity_selected.py,
\* 0.25 * (a/(a+b) + a/(a+c) + d/(b+d) + d/(c+d)).
C25_SokalSneath4 ==
    /\ (Called("similarity", "sokal_sneath4") /\ mask = NoMask /\ IsOk(result)) =>
          /\ result = sim_sokal_sneath4(y, x)
          /\ result = sel_sokal_sneath3(x, y, NoMask)
    /\ (Called("similarity_selected_old", "sokal_sneath4") /\ IsOk(result)) =>
          /\ result = old_sokal_sneath4(y, x, mask)
          /\ result = sel_sokal_sneath3(x, y, mask)

\* C26: anderberg lies in [0, 1/2]: with n = a+b+c+d > 0,
\* p1 = max(a,b)+max(c,d)+max(a,c)+max(b,d) and
\* p2 = max(a+c,b+d)+max(a+b,c+d) satisfy n <= p2 <= p1 <= 2n, so
\* (p1 - p2) / (2n) is in [0, 1/2]; goodman_kruskal, (p1 - p2) / (2n - p2), is
\* never negative where defined and its denominator is zero exactly when
\* p2 = 2n.
AnderbergCalled ==
    \/ Called("similarity", "anderberg") /\ mask = NoMask
    \/ Called("similarity_selected", "anderberg")

GoodmanKruskalCalled ==
    \/ Called("similarity", "goodman_kruskal") /\ mask = NoMask
    \/ Called("similarity_selected", "goodman_kruskal1")

C26_AnderbergRange ==
    LET a == Count(1, 1)
        b == Count(1, 0)
        c == Count(0, 1)
        d == Count(0, 0)
        n == a + b + c + d
        p1 == Max(a, b) + Max(c, d) + Max(a, c) + Max(b, d)
        p2 == Max(a + c, b + d) + Max(a + b, c + d)
        half == Ok(Rat2Num(Rat(1, 2)))
    IN  /\ (AnderbergCalled /\ SameLengths /\ n > 0) =>
              /\ n <= p2 /\ p2 <= p1 /\ p1 <= 2 * n
              /\ result = ODiv(OInt(p1 - p2), OInt(2 * n))
              /\ IsOk(result)
              /\ NumSign(result.num) >= 0
              /\ NumSign(OSub(half, result).num) >= 0
        /\ (GoodmanKruskalCalled /\ SameLengths) =>
              /\ result = ZeroDivisionError <=> p2 = 2 * n
              /\ p2 # 2 * n =>
                    /\ result = ODiv(OInt(p1 - p2), OInt(2 * n - p2))
                    /\ IsOk(result)
                    /\ NumSign(result.num) >= 0

C26_Witness ==
    /\ Called("similarity_selected", "anderberg")
    /\ SameLengths
    /\ Count(1, 1) = 1
    /\ Count(1, 0) = 0
    /\ Count(0, 1) = 0
    /\ Count(0, 0) = 1
    /\ result = Ok(Rat2Num(Rat(1, 2)))

\* C27: in distance.py hamming, canberra, manhattan, cityblock, minkowski and
\* squared_euclid all return b + c, the number of positions where the vectors
\* differ, and the square of euclid equals it; hamming plus inner_product of
\* similarity.py (a + d) is n, the vector length.
MismatchCountFns ==
    {"hamming", "canberra", "manhattan", "cityblock", "minkowski",
     "squared_euclid"}

MismatchCountCalled ==
    \E f \in MismatchCountFns : Called("distance", f)

C27_MismatchCount ==
    LET bc == Count(1, 0) + Count(0, 1)
    IN  (SameLengths /\ mask = NoMask) =>
            /\ MismatchCountCalled => result = OInt(bc)
            /\ Called("distance", "euclid") =>
                  /\ IsOk(result)
                  /\ OPow2(result) = OInt(bc)
            /\ Called("distance", "hamming") =>
                  OAdd(result, sim_inner_product(x, y)) = OInt(x.size)
            /\ Called("similarity", "inner_product") =>
                  /\ result = OInt(Count(1, 1) + Count(0, 0))
                  /\ OAdd(dist_hamming(x, y), result) = OInt(x.size)

C27_Witness ==
    /\ Called("distance", "squared_euclid")
    /\ SameLengths
    /\ mask = NoMask
    /\ Count(1, 0) = 1
    /\ Count(0, 1) = 1
    /\ x.size = 3
    /\ result = OInt(2)
    /\ OPow2(dist_euclid(x, y)) = OInt(2)
    /\ OAdd(dist_hamming(x, y), sim_inner_product(x, y)) = OInt(3)

\* C28: mean_manhattan + smc = 1 whenever n > 0; whenever 2a + b + c > 0,
\* lance_williams equals bray_curtis and lance_williams + dice = 1; the
\* members of each pair are undefined on exactly the same inputs.
ComplementCalled ==
    \/ Called("distance", "mean_manhattan")
    \/ Called("distance", "lance_williams")
    \/ Called("distance", "bray_curtis")
    \/ Called("similarity", "smc")
    \/ Called("similarity", "dice")

\* p and q are complementary: their sum is 1 where the guard holds, and
\* neither returns a number unless the other does
Complementary(p, q, defined) ==
    /\ IsOk(p) <=> IsOk(q)
    /\ (SameLengths /\ defined) => (IsOk(p) /\ OAdd(p, q) = OInt(1))
    /\ (SameLengths /\ ~defined) => (p = ZeroDivisionError /\ q = p)

C28_Complements ==
    LET a == Count(1, 1)
        b == Count(1, 0)
        c == Count(0, 1)
        d == Count(0, 0)
    IN  mask = NoMask =>
            /\ Called("distance", "mean_manhattan") =>
                  Complementary(result, sim_smc(x, y), a + b + c + d > 0)
            /\ Called("similarity", "smc") =>
                  Complementary(dist_mean_manhattan(x, y), result,
                                a + b + c + d > 0)
            /\ Called("distance", "lance_williams") =>
                  /\ result = dist_bray_curtis(x, y)
                  /\ Complementary(result, sim_dice(x, y), 2 * a + b + c > 0)
            /\ Called("distance", "bray_curtis") =>
                  /\ result = dist_lance_williams(x, y)
                  /\ Complementary(result, sim_dice(x, y), 2 * a + b + c > 0)
            /\ Called("similarity", "dice") =>
                  Complementary(dist_lance_williams(x, y), result,
                                2 * a + b + c > 0)

C28_Witness ==
    /\ Called("distance", "lance_williams")
    /\ SameLengths
    /\ mask = NoMask
    /\ Count(1, 1) = 1
    /\ Count(1, 0) = 1
    /\ Count(0, 1) = 0
    /\ result = Ok(Rat2Num(Rat(1, 3)))
    /\ sim_dice(x, y) = Ok(Rat2Num(Rat(2, 3)))
    /\ dist_mean_manhattan(x, y) # ZeroDivisionError

\* C29: in similarity_selected.py, for all x, y and mask, dice1(x, y) equals
\* dice2(y, x), peirce1(x, y) equals peirce2(y, x) and cole1(x, y) equals
\* cole2(y, x), failing on the same inputs.
SwapPairCalled ==
    \E f \in {"dice1", "dice2", "peirce1", "peirce2", "cole1", "cole2"} :
        Called("similarity_selected", f)

C29_SwappedPairs ==
    /\ Called("similarity_selected", "dice1") =>
          result = sel_dice2(y, x, mask)
    /\ Called("similarity_selected", "dice2") =>
          result = sel_dice1(y, x, mask)
    /\ Called("similarity_selected", "peirce1") =>
          result = sel_peirce2(y, x, mask)
    /\ Called("similarity_selected", "peirce2") =>
          result = sel_peirce1(y, x, mask)
    /\ Called("similarity_selected", "cole1") =>
          result = sel_cole2(y, x, mask)
    /\ Called("similarity_selected", "cole2") =>
          result = sel_cole1(y, x, mask)

C29_Witness ==
    /\ Called("similarity_selected", "dice1")
    /\ SameLengths
    /\ Count(1, 1) = 1
    /\ Count(1, 0) = 1
    /\ Count(0, 1) = 0
    /\ result = Ok(Rat2Num(Rat(1, 2)))
    /\ sel_dice2(y, x, mask) = result
    /\ sel_dice2(x, y, mask) = OInt(1)

\* C30: kulczynski2 of similarity.py and similarity_selected_old.py,
\* ((a/2) * (2a+b+c)) / ((a+b) * (a+c)), equals kulczynski2 of
\* similarity_selected.py, 0.5 * (a/(a+b) + a/(a+c)), and driver_kroeber,
\* (a/2) * (1/(a+b) + 1/(a+c)); johnson, a/(a+b) + a/(a+c), is twice that
\* value; all are undefined on the same tallies, a + b = 0 or a + c = 0.
KulczynskiFamilyFns == {"kulczynski2", "driver_kroeber", "johnson"}

KulczynskiFamilyCalled ==
    \/ \E f \in KulczynskiFamilyFns :
          \/ Called("similarity", f) /\ mask = NoMask
          \/ Called("similarity_selected_old", f)
    \/ Called("similarity_selected", "kulczynski2")

C30_KulczynskiFamily ==
    LET a == Count(1, 1)
        b == Count(1, 0)
        c == Count(0, 1)
        k == sel_kulczynski2(x, y, mask)
    IN  KulczynskiFamilyCalled =>
            /\ fn[2] \in {"kulczynski2", "driver_kroeber"} => result = k
            /\ fn[2] = "johnson" => result = OMul(OInt(2), k)
            /\ IsOk(result) <=> IsOk(k)
            /\ SameLengths =>
                  /\ IsOk(result) <=> (a + b # 0 /\ a + c # 0)
                  /\ ~IsOk(result) => result = ZeroDivisionError

C30_Witness ==
    /\ Called("similarity", "johnson")
    /\ mask = NoMask
    /\ SameLengths
    /\ Count(1, 1) = 1
    /\ Count(1, 0) = 1
    /\ Count(0, 1) = 0
    /\ result = Ok(Rat2Num(Rat(3, 2)))
    /\ sim_kulczynski2(x, y) = Ok(Rat2Num(Rat(3, 4)))
    /\ sim_driver_kroeber(x, y) = Ok(Rat2Num(Rat(3, 4)))
    /\ sel_kulczynski2(x, y, mask) = Ok(Rat2Num(Rat(3, 4)))

====
